---------------------------- MODULE Spec2Model ----------------------------
(***************************************************************************)
(* minidom: a namespace-aware XML tree (Element / Node), the SAX-to-DOM    *)
(* TreeBuilder that resolves namespace prefixes over a scope stack, and    *)
(* the serializer that writes a tree back through the rxml encoder.        *)
(*                                                                         *)
(* Encoding of Rust values:                                                *)
(*   String           a tuple of one-character strings, <<"n","s","1">>    *)
(*   Option<T>        None is <<>>, Some(v) is <<v>>                       *)
(*   BTreeMap<K, V>   a function whose DOMAIN is the set of keys           *)
(*   Vec<T>           a sequence                                           *)
(*   Element, Node    records                                              *)
(***************************************************************************)
EXTENDS Integers, Sequences, FiniteSets, TLC

VARIABLES
    mode,            \* who feeds the TreeBuilder: "reader" (from_reader over the tokenizer)
    next_tag,        \* TreeBuilder.next_tag : Option<(Prefix, String, Prefixes, BTreeMap)>
    stack,           \* TreeBuilder.stack : Vec<Element>
    prefixes_stack,  \* TreeBuilder.prefixes_stack : Vec<Prefixes>
    root,            \* TreeBuilder.root : Option<Element>
    status,          \* from_reader: "reading", or how it returned
    returned,        \* from_reader: Option<Element>, the tree it returned
    initial,         \* history: the prefixes stack the builder was created with
    events,          \* history: the events consumed so far
    closed,          \* history: prefixes declared on elements whose ElementFoot was processed
    last,            \* history: the last event, the builder before it, and its result
    elem,            \* the Element (or the root of the ElementBuilder) the program works on
    spare,           \* a second Element the program holds (a clone, a child to append)
    phase,           \* "builder": elem is the root of an ElementBuilder; "element"; "dropped"
    ret,             \* what the last call on elem returned
    panicked,        \* whether the last call on elem panicked
    written,         \* Option: the items and the document write_to wrote from elem
    lastop,          \* history: the last call on elem, its arguments, and elem before it
    nops             \* history: the number of calls made

builderVars == <<next_tag, stack, prefixes_stack, root, status, returned,
                 initial, events, closed, last>>

elementVars == <<elem, spare, phase, ret, panicked, written, lastop, nops>>

vars == <<mode, next_tag, stack, prefixes_stack, root, status, returned,
          initial, events, closed, last, elem, spare, phase, ret, panicked,
          written, lastop, nops>>

----------------------------------------------------------------------------
(* Option and BTreeMap *)

None == <<>>

Some(v) == <<v>>

EmptyMap == [k \in {} |-> <<>>]

MapGet(m, k) == IF k \in DOMAIN m THEN Some(m[k]) ELSE None

MapInsert(m, k, v) == [y \in DOMAIN m \cup {k} |-> IF y = k THEN v ELSE m[y]]

----------------------------------------------------------------------------
(* Strings of the bounded alphabets *)

XMLNS == <<"x", "m", "l", "n", "s">>

NS1 == <<"n", "s", "1">>

NS2 == <<"n", "s", "2">>

P1 == <<"p", "1">>

NameA == <<"a">>

NameB == <<"b">>

KeyId == <<"i", "d">>

KeyK == <<"k">>

KeyJ == <<"j">>

ValV == <<"v">>

ValW == <<"w">>

TextT == <<"t">>

----------------------------------------------------------------------------
(* Bounds *)

\* elements opened in one document
MaxElems == 3

\* calls made on one Element
MaxOps == 4

\* calls that change an element before it is only read
MaxBuild == 2

\* bytes of an argument of escape
MaxRaw == 4

\* events handed to a TreeBuilder by a caller of process_event
MaxEvents == 5

\* Attribute events in one tag head
MaxAttrs == 1

\* Text events in one document
MaxTexts == 1

\* Attribute events in the head of a one-tag document
MaxHeadAttrs == 3

----------------------------------------------------------------------------
(* Element and Node *)

ElementNew(name, namespace, prefixes, attributes, children) ==
    [name |-> name, namespace |-> namespace, prefixes |-> prefixes,
     attributes |-> attributes, children |-> children]

NodeElement(e) == [kind |-> "Element", element |-> e]

NodeText(s) == [kind |-> "Text", text |-> s]

\* mutant: the child is put in front of the children
append_child_front(e, child) == [e EXCEPT !.children = <<NodeElement(child)>> \o @]

append_child(e, child) == [e EXCEPT !.children = Append(@, NodeElement(child))]

append_text_node(e, s) == [e EXCEPT !.children = Append(@, NodeText(s))]

\* the characters of the alphabets, in byte order
ByteOrder == <<"1", "2", ":", "a", "b", "d", "i", "j", "k", "l", "m", "n", "p", "s", "t",
               "u", "v", "w", "x">>

Byte(c) == CHOOSE i \in 1..Len(ByteOrder) : ByteOrder[i] = c

\* Ord for String: by bytes, a proper prefix first
RECURSIVE StrLess(_, _)
StrLess(a, b) ==
    IF Len(b) = 0 THEN FALSE
    ELSE IF Len(a) = 0 THEN TRUE
    ELSE IF a[1] # b[1] THEN Byte(a[1]) < Byte(b[1])
    ELSE StrLess(Tail(a), Tail(b))

\* the keys of a BTreeMap<String, _> in iteration order
RECURSIVE SortedKeys(_)
SortedKeys(keys) ==
    IF keys = {} THEN <<>>
    ELSE LET k == CHOOSE x \in keys : \A y \in keys \ {x} : StrLess(x, y)
         IN  <<k>> \o SortedKeys(keys \ {k})

\* Element::attrs: the (key, value) pairs in key order
attrs(e) ==
    LET ks == SortedKeys(DOMAIN e.attributes)
    IN  [i \in 1..Len(ks) |-> <<ks[i], e.attributes[ks[i]]>>]

\* Iterator::eq
IterEq(s1, s2) == Len(s1) = Len(s2) /\ \A i \in 1..Len(s1) : s1[i] = s2[i]

RECURSIVE ElementEq(_, _)
RECURSIVE NodeEq(_, _)
\* mutant: the derived equality, prefixes included
ElementEq_derived(a, b) ==
    /\ a.name = b.name
    /\ a.namespace = b.namespace
    /\ a.prefixes = b.prefixes
    /\ IterEq(attrs(a), attrs(b))
    /\ Len(a.children) = Len(b.children)
    /\ \A i \in 1..Len(a.children) : NodeEq(a.children[i], b.children[i])

\* changed: the children are compared as far as the shorter list goes
ElementEq_zip_shorter(a, b) ==
    /\ a.name = b.name
    /\ a.namespace = b.namespace
    /\ IterEq(attrs(a), attrs(b))
    /\ \A i \in 1..Len(a.children) :
          i <= Len(b.children) => NodeEq(a.children[i], b.children[i])

\* impl PartialEq for Node
NodeEq(n1, n2) ==
    IF n1.kind = "Element" /\ n2.kind = "Element" THEN ElementEq(n1.element, n2.element)
    ELSE IF n1.kind = "Text" /\ n2.kind = "Text" THEN n1.text = n2.text
    ELSE FALSE

\* impl PartialEq for Element
ElementEq(a, b) ==
    IF a.name = b.name /\ a.namespace = b.namespace /\ IterEq(attrs(a), attrs(b))
    THEN IF Len(a.children) # Len(b.children) THEN FALSE
         ELSE \A i \in 1..Len(a.children) : NodeEq(a.children[i], b.children[i])
    ELSE FALSE

----------------------------------------------------------------------------
(* Prefixes *)

PrefixesGet(prefixes, prefix) == MapGet(prefixes, prefix)

\* changed: a prefix that is bound already keeps its namespace
PrefixesInsert_keeps_first(prefixes, prefix, namespace) ==
    IF prefix \in DOMAIN prefixes THEN prefixes ELSE MapInsert(prefixes, prefix, namespace)

PrefixesInsert(prefixes, prefix, namespace) == MapInsert(prefixes, prefix, namespace)

----------------------------------------------------------------------------
(* Element: construction and mutation *)

\* Element::bare
bare(name, namespace) == ElementNew(name, namespace, EmptyMap, EmptyMap, <<>>)

\* Element::builder: the root of the new ElementBuilder
builder(name, namespace) == ElementNew(name, namespace, EmptyMap, EmptyMap, <<>>)

\* Element::attr
attr(e, name) == MapGet(e.attributes, name)

\* IntoAttributeValue for Option<T>: and_then over the inner conversion
into_attribute_value(val) == IF val = None THEN None ELSE Some(val[1])

\* mutant: an absent value removes the attribute
set_attr_removes(e, name, val) ==
    LET v == into_attribute_value(val)
    IN  IF v = None
        THEN [e |-> [e EXCEPT !.attributes = [k \in DOMAIN @ \ {name} |-> @[k]]],
              panic |-> FALSE]
        ELSE [e |-> [e EXCEPT !.attributes = MapInsert(@, name, v[1])], panic |-> FALSE]

\* mutant: an attribute that is present keeps its value
set_attr_keeps_existing(e, name, val) ==
    LET v == into_attribute_value(val)
    IN  IF name \in DOMAIN e.attributes
        THEN [e |-> e, panic |-> v = None]
        ELSE IF v # None
             THEN [e |-> [e EXCEPT !.attributes = MapInsert(@, name, v[1])], panic |-> FALSE]
             ELSE [e |-> e, panic |-> FALSE]

\* Element::set_attr; panic: the expect on an absent value failed, before any write
set_attr(e, name, val) ==
    LET v == into_attribute_value(val)
    IN  IF name \in DOMAIN e.attributes
        THEN IF v = None
             THEN [e |-> e, panic |-> TRUE]
             ELSE [e |-> [e EXCEPT !.attributes[name] = v[1]], panic |-> FALSE]
        ELSE IF v # None
             THEN [e |-> [e EXCEPT !.attributes = MapInsert(@, name, v[1])], panic |-> FALSE]
             ELSE [e |-> e, panic |-> FALSE]

append_node(e, node) == [e EXCEPT !.children = Append(@, node)]

\* Node::into_element
into_element(node) == IF node.kind = "Element" THEN Some(node.element) ELSE None

\* Vec::remove(i), 1-based
VecRemove(v, i) == SubSeq(v, 1, i - 1) \o SubSeq(v, i + 1, Len(v))

\* the closure of remove_child
HasId(node, id) ==
    IF node.kind = "Element"
    THEN LET el_id == attr(node.element, KeyId)
         IN  IF el_id = None THEN FALSE ELSE el_id[1] = id
    ELSE FALSE

\* Iterator::position with that closure, from index i; 0 for None
RECURSIVE Position(_, _, _)
Position(children, i, id) ==
    IF i > Len(children) THEN 0
    ELSE IF HasId(children[i], id) THEN i
    ELSE Position(children, i + 1, id)

\* the last index with that closure; 0 for None
RECURSIVE RPosition(_, _, _)
RPosition(children, i, id) ==
    IF i = 0 THEN 0
    ELSE IF HasId(children[i], id) THEN i
    ELSE RPosition(children, i - 1, id)

\* mutant: the last matching child
remove_child_last_match(e, id) ==
    LET idx == RPosition(e.children, Len(e.children), id)
    IN  IF idx = 0 THEN [e |-> e, ret |-> None]
        ELSE [e |-> [e EXCEPT !.children = VecRemove(@, idx)],
              ret |-> into_element(e.children[idx])]

\* Element::remove_child
remove_child(e, id) ==
    LET idx == Position(e.children, 1, id)
    IN  IF idx = 0 THEN [e |-> e, ret |-> None]
        ELSE [e |-> [e EXCEPT !.children = VecRemove(@, idx)],
              ret |-> into_element(e.children[idx])]

\* mutant: only the first node is removed
unshift_child_first_node(e) ==
    IF Len(e.children) = 0 THEN [e |-> e, ret |-> None]
    ELSE [e |-> [e EXCEPT !.children = VecRemove(@, 1)],
          ret |-> into_element(e.children[1])]

\* Element::unshift_child
RECURSIVE unshift_child(_)
unshift_child(e) ==
    IF Len(e.children) = 0 THEN [e |-> e, ret |-> None]
    ELSE LET el == into_element(e.children[1])
             rest == [e EXCEPT !.children = VecRemove(@, 1)]
         IN  IF el # None THEN [e |-> rest, ret |-> el] ELSE unshift_child(rest)

\* mutant: a prefix may be declared again with the namespace it has
builder_prefix_same_namespace(b, p, namespace) ==
    IF PrefixesGet(b.prefixes, p) # None /\ PrefixesGet(b.prefixes, p) # Some(namespace)
    THEN [res |-> "DuplicatePrefix", root |-> b]
    ELSE [res |-> "Ok", root |-> [b EXCEPT !.prefixes = PrefixesInsert(@, p, namespace)]]

\* ElementBuilder::prefix; on Err the builder was moved in and is dropped
builder_prefix(b, p, namespace) ==
    IF PrefixesGet(b.prefixes, p) # None
    THEN [res |-> "DuplicatePrefix", root |-> b]
    ELSE [res |-> "Ok", root |-> [b EXCEPT !.prefixes = PrefixesInsert(@, p, namespace)]]

\* ElementBuilder::attr
builder_attr(b, name, value) == set_attr(b, name, value)

\* ElementBuilder::append
builder_append(b, node) == append_node(b, node)

----------------------------------------------------------------------------
(* TreeBuilder *)

TreeBuilderNew ==
    [next_tag |-> None, stack |-> <<>>, prefixes_stack |-> <<>>, root |-> None]

\* changed: the scopes given are not kept
with_prefixes_stack_dropped(tb, ps) == tb

with_prefixes_stack(tb, ps) == [tb EXCEPT !.prefixes_stack = ps]

\* Vec::pop on a possibly empty vector
VecPop(v) == IF Len(v) = 0 THEN v ELSE SubSeq(v, 1, Len(v) - 1)

RECURSIVE LookupFrom(_, _, _)
LookupFrom(ps, i, prefix) ==
    IF i = 0 THEN None
    ELSE LET ns == PrefixesGet(ps[i], prefix)
         IN  IF ns # None THEN ns ELSE LookupFrom(ps, i - 1, prefix)

RECURSIVE LookupOutward(_, _, _)
LookupOutward(ps, i, prefix) ==
    IF i > Len(ps) THEN None
    ELSE LET ns == PrefixesGet(ps[i], prefix)
         IN  IF ns # None THEN ns ELSE LookupOutward(ps, i + 1, prefix)

\* mutant: the outermost scope first
lookup_prefix_outermost_first(ps, prefix) == LookupOutward(ps, 1, prefix)

\* the innermost scope first
lookup_prefix(ps, prefix) == LookupFrom(ps, Len(ps), prefix)

\* mutant: the scope of the popped element stays on the scope stack
pop_keeps_scope(tb) ==
    [tb |-> [tb EXCEPT !.stack = VecPop(@)],
     el |-> IF Len(tb.stack) = 0 THEN None ELSE Some(tb.stack[Len(tb.stack)])]

\* pop: both stacks lose their last entry, each if it has one
pop(tb) ==
    [tb |-> [tb EXCEPT !.prefixes_stack = VecPop(@), !.stack = VecPop(@)],
     el |-> IF Len(tb.stack) = 0 THEN None ELSE Some(tb.stack[Len(tb.stack)])]

\* changed: the popped element becomes the first child of the new top
process_end_tag_attaches_first(tb) ==
    LET p == pop(tb)
    IN  IF p.el = None THEN p.tb
        ELSE IF Len(p.tb.stack) > 0
             THEN [p.tb EXCEPT !.stack[Len(p.tb.stack)].children =
                                  <<NodeElement(p.el[1])>> \o @]
             ELSE [p.tb EXCEPT !.root = p.el]

\* changed: the popped element becomes a child of the outermost open element
process_end_tag_attaches_outermost(tb) ==
    LET p == pop(tb)
    IN  IF p.el = None THEN p.tb
        ELSE IF Len(p.tb.stack) > 0
             THEN [p.tb EXCEPT !.stack[1] = append_child(@, p.el[1])]
             ELSE [p.tb EXCEPT !.root = p.el]

\* changed: every popped element is made the root
process_end_tag_roots_every_element(tb) ==
    LET p == pop(tb)
    IN  IF p.el = None THEN p.tb
        ELSE IF Len(p.tb.stack) > 0
             THEN [p.tb EXCEPT !.stack[Len(p.tb.stack)] = append_child(@, p.el[1]),
                               !.root = p.el]
             ELSE [p.tb EXCEPT !.root = p.el]

\* process_end_tag: the popped element goes to the new top, or becomes the root
process_end_tag(tb) ==
    LET p == pop(tb)
    IN  IF p.el = None THEN p.tb
        ELSE IF Len(p.tb.stack) > 0
             THEN [p.tb EXCEPT !.stack[Len(p.tb.stack)] = append_child(@, p.el[1])]
             ELSE [p.tb EXCEPT !.root = p.el]

\* changed: the text goes to the outermost open element
process_text_outermost(tb, text) ==
    IF Len(tb.stack) > 0
    THEN [tb EXCEPT !.stack[1] = append_text_node(@, text)]
    ELSE tb

process_text(tb, text) ==
    IF Len(tb.stack) > 0
    THEN [tb EXCEPT !.stack[Len(tb.stack)] = append_text_node(@, text)]
    ELSE tb

\* "prefix:name"
FormatKey(prefix, name) == prefix \o <<":">> \o name

\* mutant: a regular attribute replaces the attributes buffered so far
process_attribute_keeps_last(tb, ev) ==
    IF tb.next_tag = None THEN tb
    ELSE LET tag == tb.next_tag[1]
         IN  IF ev.prefix = None /\ ev.name = XMLNS
             THEN [tb EXCEPT !.next_tag =
                      Some([tag EXCEPT !.prefixes = PrefixesInsert(@, None, ev.value)])]
             ELSE IF ev.prefix = Some(XMLNS)
             THEN [tb EXCEPT !.next_tag =
                      Some([tag EXCEPT !.prefixes = PrefixesInsert(@, Some(ev.name), ev.value)])]
             ELSE IF ev.prefix # None
             THEN [tb EXCEPT !.next_tag =
                      Some([tag EXCEPT !.attrs = MapInsert(EmptyMap, FormatKey(ev.prefix[1], ev.name), ev.value)])]
             ELSE [tb EXCEPT !.next_tag =
                      Some([tag EXCEPT !.attrs = MapInsert(EmptyMap, ev.name, ev.value)])]

\* changed: xmlns:p is kept as a regular attribute
process_attribute_keeps_xmlns(tb, ev) ==
    IF tb.next_tag = None THEN tb
    ELSE LET tag == tb.next_tag[1]
         IN  IF ev.prefix = None /\ ev.name = XMLNS
             THEN [tb EXCEPT !.next_tag =
                      Some([tag EXCEPT !.prefixes = PrefixesInsert(@, None, ev.value)])]
             ELSE IF ev.prefix # None
             THEN [tb EXCEPT !.next_tag =
                      Some([tag EXCEPT !.attrs = MapInsert(@, FormatKey(ev.prefix[1], ev.name), ev.value)])]
             ELSE [tb EXCEPT !.next_tag =
                      Some([tag EXCEPT !.attrs = MapInsert(@, ev.name, ev.value)])]

process_attribute(tb, ev) ==
    IF tb.next_tag = None THEN tb
    ELSE LET tag == tb.next_tag[1]
         IN  IF ev.prefix = None /\ ev.name = XMLNS
             THEN [tb EXCEPT !.next_tag =
                      Some([tag EXCEPT !.prefixes = PrefixesInsert(@, None, ev.value)])]
             ELSE IF ev.prefix = Some(XMLNS)
             THEN [tb EXCEPT !.next_tag =
                      Some([tag EXCEPT !.prefixes = PrefixesInsert(@, Some(ev.name), ev.value)])]
             ELSE IF ev.prefix # None
             THEN [tb EXCEPT !.next_tag =
                      Some([tag EXCEPT !.attrs = MapInsert(@, FormatKey(ev.prefix[1], ev.name), ev.value)])]
             ELSE [tb EXCEPT !.next_tag =
                      Some([tag EXCEPT !.attrs = MapInsert(@, ev.name, ev.value)])]

\* &NameStr::split_name: (Option<prefix>, local name)
RECURSIVE ColonAt(_, _)
ColonAt(key, i) ==
    IF i > Len(key) THEN 0 ELSE IF key[i] = ":" THEN i ELSE ColonAt(key, i + 1)

split_name(key) ==
    LET c == ColonAt(key, 1)
    IN  IF c = 0 THEN <<None, key>>
        ELSE <<Some(SubSeq(key, 1, c - 1)), SubSeq(key, c + 1, Len(key))>>

\* mutant: the scope of the tag is pushed only after its prefix was looked up
process_head_close_lookup_first(tb) ==
    IF tb.next_tag = None THEN [tb |-> tb, res |-> "Ok"]
    ELSE LET tag    == tb.next_tag[1]
             pushed == [tb EXCEPT !.next_tag = None,
                                  !.prefixes_stack = Append(@, tag.prefixes)]
             ns     == lookup_prefix(tb.prefixes_stack, tag.prefix)
         IN  IF ns = None
             THEN [tb |-> pushed, res |-> "MissingNamespace"]
             ELSE [tb |-> [pushed EXCEPT !.stack =
                              Append(@, ElementNew(tag.name, ns[1], tag.prefixes, tag.attrs, <<>>))],
                   res |-> "Ok"]

\* mutant: the prefixes of the attributes are looked up as well
process_head_close_resolves_attributes(tb) ==
    IF tb.next_tag = None THEN [tb |-> tb, res |-> "Ok"]
    ELSE LET tag    == tb.next_tag[1]
             pushed == [tb EXCEPT !.next_tag = None,
                                  !.prefixes_stack = Append(@, tag.prefixes)]
             ns     == lookup_prefix(pushed.prefixes_stack, tag.prefix)
             bad    == \E k \in DOMAIN tag.attrs :
                          /\ split_name(k)[1] # None
                          /\ lookup_prefix(pushed.prefixes_stack, split_name(k)[1]) = None
         IN  IF ns = None \/ bad
             THEN [tb |-> pushed, res |-> "MissingNamespace"]
             ELSE [tb |-> [pushed EXCEPT !.stack =
                              Append(@, ElementNew(tag.name, ns[1], tag.prefixes, tag.attrs, <<>>))],
                   res |-> "Ok"]

process_head_close(tb) ==
    IF tb.next_tag = None THEN [tb |-> tb, res |-> "Ok"]
    ELSE LET tag    == tb.next_tag[1]
             pushed == [tb EXCEPT !.next_tag = None,
                                  !.prefixes_stack = Append(@, tag.prefixes)]
             ns     == lookup_prefix(pushed.prefixes_stack, tag.prefix)
         IN  IF ns = None
             THEN [tb |-> pushed, res |-> "MissingNamespace"]
             ELSE [tb |-> [pushed EXCEPT !.stack =
                              Append(@, ElementNew(tag.name, ns[1], tag.prefixes, tag.attrs, <<>>))],
                   res |-> "Ok"]

process_event(tb, ev) ==
    CASE ev.type = "XmlDeclaration" -> [tb |-> tb, res |-> "Ok"]
      [] ev.type = "ElementHeadOpen" ->
            [tb |-> [tb EXCEPT !.next_tag =
                        Some([prefix |-> ev.prefix, name |-> ev.name,
                              prefixes |-> EmptyMap, attrs |-> EmptyMap])],
             res |-> "Ok"]
      [] ev.type = "Attribute" -> [tb |-> process_attribute(tb, ev), res |-> "Ok"]
      [] ev.type = "ElementHeadClose" -> process_head_close(tb)
      [] ev.type = "ElementFoot" -> [tb |-> process_end_tag(tb), res |-> "Ok"]
      [] ev.type = "Text" -> [tb |-> process_text(tb, ev.text), res |-> "Ok"]

----------------------------------------------------------------------------
(* Events of the tokenizer *)

EvXmlDeclaration == [type |-> "XmlDeclaration"]

EvHeadOpen(prefix, name) == [type |-> "ElementHeadOpen", prefix |-> prefix, name |-> name]

EvAttribute(prefix, name, value) ==
    [type |-> "Attribute", prefix |-> prefix, name |-> name, value |-> value]

EvHeadClose == [type |-> "ElementHeadClose"]

EvFoot == [type |-> "ElementFoot"]

EvText(text) == [type |-> "Text", text |-> text]

TagPrefixes == {None, Some(P1)}

\* mode "head": documents of one tag, with more names, keys and values
HeadOpenEvents ==
    {EvHeadOpen(p, n) : p \in TagPrefixes,
                        n \in IF mode = "head" THEN {NameA, NameB} ELSE {NameA}}

DeclarationEvents ==
    {EvAttribute(None, XMLNS, ns) : ns \in IF mode = "events" THEN {NS1} ELSE {NS1, NS2}}
        \cup {EvAttribute(Some(XMLNS), P1, ns) :
                  ns \in IF mode = "events" THEN {NS1} ELSE {NS1, NS2}}

RegularAttributeEvents ==
    IF mode = "head"
    THEN {EvAttribute(None, KeyK, v) : v \in {ValV, ValW}}
            \cup {EvAttribute(None, KeyJ, ValV), EvAttribute(Some(P1), KeyK, ValV)}
    ELSE {EvAttribute(None, KeyK, ValV), EvAttribute(Some(P1), KeyK, ValV)}

AttributeEvents == DeclarationEvents \cup RegularAttributeEvents

TextEvents == {EvText(TextT)}

InitialStacks == {<<>>, <<PrefixesInsert(EmptyMap, None, NS2)>>}

CountType(evs, type) == Cardinality({i \in 1..Len(evs) : evs[i].type = type})

RECURSIVE AttrsInHead(_, _)
AttrsInHead(evs, i) ==
    IF i = 0 \/ evs[i].type # "Attribute" THEN 0 ELSE 1 + AttrsInHead(evs, i - 1)

\* The tokenizer hands out well-formed documents: a head is open between
\* ElementHeadOpen and ElementHeadClose, an ElementFoot closes an open element.
ReaderOffers(ev) ==
    CASE ev.type = "XmlDeclaration" -> events = <<>>
      [] ev.type = "ElementHeadOpen" ->
            /\ next_tag = None
            /\ IF mode = "head" THEN CountType(events, "ElementHeadOpen") = 0
               ELSE CountType(events, "ElementHeadOpen") < MaxElems
      [] ev.type = "Attribute" ->
            /\ next_tag # None
            /\ AttrsInHead(events, Len(events)) <
                  (IF mode = "head" THEN MaxHeadAttrs ELSE MaxAttrs)
      [] ev.type = "ElementHeadClose" -> next_tag # None
      [] ev.type = "ElementFoot" -> next_tag = None /\ Len(stack) > 0
      [] ev.type = "Text" -> next_tag = None /\ CountType(events, "Text") < MaxTexts

\* mode "events": a caller of process_event hands over any event at any time
Offers(ev) ==
    \/ mode \in {"reader", "head"} /\ ReaderOffers(ev)
    \/ mode = "events" /\ Len(events) < MaxEvents

----------------------------------------------------------------------------
(* from_reader: one turn of its loop *)

TB == [next_tag |-> next_tag, stack |-> stack,
       prefixes_stack |-> prefixes_stack, root |-> root]

ClosedAfter(ev) ==
    IF ev.type = "ElementFoot" /\ Len(stack) > 0
    THEN closed \cup DOMAIN stack[Len(stack)].prefixes
    ELSE closed

\* changed: on an error the outermost open element is returned
ReadTurn_returns_partial(tb, ev) ==
    LET r == process_event(tb, ev)
    IN  IF r.res # "Ok"
        THEN [tb |-> r.tb, res |-> r.res, status |-> r.res,
              returned |-> IF Len(r.tb.stack) > 0 THEN Some(r.tb.stack[1]) ELSE None]
        ELSE IF r.tb.root # None
        THEN [tb |-> [r.tb EXCEPT !.root = None], res |-> "Ok",
              status |-> "Ok", returned |-> r.tb.root]
        ELSE [tb |-> r.tb, res |-> "Ok", status |-> "reading", returned |-> None]

\* process_event, then root.take(): how the turn leaves the builder and the call
ReadTurn(tb, ev) ==
    LET r == process_event(tb, ev)
    IN  IF r.res # "Ok"
        THEN [tb |-> r.tb, res |-> r.res, status |-> r.res, returned |-> None]
        ELSE IF r.tb.root # None
        THEN [tb |-> [r.tb EXCEPT !.root = None], res |-> "Ok",
              status |-> "Ok", returned |-> r.tb.root]
        ELSE [tb |-> r.tb, res |-> "Ok", status |-> "reading", returned |-> None]

RECURSIVE ReadLoop(_, _)
\* changed: at the end of the events an element still open is returned
ReadLoop_returns_open(tb, evs) ==
    IF evs = <<>>
    THEN IF Len(tb.stack) > 0 THEN [status |-> "Ok", returned |-> Some(tb.stack[1])]
         ELSE [status |-> "EndOfDocument", returned |-> None]
    ELSE LET t == ReadTurn(tb, Head(evs))
         IN  IF t.status # "reading"
             THEN [status |-> t.status, returned |-> t.returned]
             ELSE ReadLoop(t.tb, Tail(evs))

\* changed: the events after the root are processed as well
ReadLoop_reads_on(tb, evs) ==
    IF evs = <<>> THEN [status |-> "EndOfDocument", returned |-> None]
    ELSE LET t == ReadTurn(tb, Head(evs))
         IN  IF t.status = "Ok" /\ Tail(evs) # <<>>
             THEN LET r == ReadLoop(t.tb, Tail(evs))
                  IN  IF r.status = "EndOfDocument"
                      THEN [status |-> "Ok", returned |-> t.returned]
                      ELSE r
             ELSE IF t.status # "reading"
             THEN [status |-> t.status, returned |-> t.returned]
             ELSE ReadLoop(t.tb, Tail(evs))

\* the while loop of from_reader over the events the tokenizer yields
ReadLoop(tb, evs) ==
    IF evs = <<>> THEN [status |-> "EndOfDocument", returned |-> None]
    ELSE LET t == ReadTurn(tb, Head(evs))
         IN  IF t.status # "reading"
             THEN [status |-> t.status, returned |-> t.returned]
             ELSE ReadLoop(t.tb, Tail(evs))

\* Element::from_reader_with_prefixes over the events the tokenizer yields
\* (from_reader: ps is empty)
from_reader(evs, ps) == ReadLoop(with_prefixes_stack(TreeBuilderNew, ps), evs)

Feed(ev) ==
    /\ status = "reading"
    /\ Offers(ev)
    /\ LET r == process_event(TB, ev)
           t == IF mode = "events"
                THEN [tb |-> r.tb, res |-> r.res, status |-> "reading", returned |-> None]
                ELSE ReadTurn(TB, ev)
       IN  /\ next_tag' = t.tb.next_tag
           /\ stack' = t.tb.stack
           /\ prefixes_stack' = t.tb.prefixes_stack
           /\ root' = t.tb.root
           /\ status' = t.status
           /\ returned' = t.returned
           /\ last' = [ev |-> ev, pre |-> TB, res |-> t.res]
    /\ events' = Append(events, ev)
    /\ closed' = ClosedAfter(ev)
    /\ UNCHANGED <<mode, initial>>
    /\ UNCHANGED elementVars

\* from_reader: driver.read() yields no further event
EndOfStream ==
    /\ mode \in {"reader", "head"}
    /\ status = "reading"
    /\ status' = "EndOfDocument"
    /\ returned' = None
    /\ last' = [ev |-> [type |-> "EndOfStream"], pre |-> TB, res |-> "Ok"]
    /\ UNCHANGED <<mode, next_tag, stack, prefixes_stack, root, initial, events, closed>>
    /\ UNCHANGED elementVars

XmlDeclaration == Feed(EvXmlDeclaration)

ElementHeadOpen == \E ev \in HeadOpenEvents : Feed(ev)

Attribute == \E ev \in AttributeEvents : Feed(ev)

ElementHeadClose == Feed(EvHeadClose)

ElementFoot == Feed(EvFoot)

Text == \E ev \in TextEvents : Feed(ev)

NoEvent == [ev |-> [type |-> "None"], pre |-> TreeBuilderNew, res |-> "Ok"]

NoOp == [op |-> "none", arg |-> <<>>, pre |-> bare(NameA, NS1)]

\* no Element is being worked on
ElementIdle ==
    /\ elem = bare(NameA, NS1)
    /\ spare = bare(NameA, NS1)
    /\ phase = "element"
    /\ ret = "unit"
    /\ panicked = FALSE
    /\ written = None
    /\ lastop = NoOp
    /\ nops = 0

InitBuilder(m) ==
    /\ mode = m
    /\ \E ps \in InitialStacks :
          /\ prefixes_stack = with_prefixes_stack(TreeBuilderNew, ps).prefixes_stack
          /\ initial = ps
    /\ next_tag = TreeBuilderNew.next_tag
    /\ stack = TreeBuilderNew.stack
    /\ root = TreeBuilderNew.root
    /\ status = "reading"
    /\ returned = None
    /\ events = <<>>
    /\ closed = {}
    /\ last = NoEvent
    /\ ElementIdle

Init == InitBuilder("reader")

Next ==
    \/ XmlDeclaration
    \/ ElementHeadOpen
    \/ Attribute
    \/ ElementHeadClose
    \/ ElementFoot
    \/ Text
    \/ EndOfStream

Spec == Init /\ [][Next]_vars

\* documents of one tag
SpecHead == InitBuilder("head") /\ [][Next]_vars

\* process_event called with any events, whatever it returned before
SpecEvents ==
    /\ InitBuilder("events")
    /\ [][\/ XmlDeclaration
          \/ ElementHeadOpen
          \/ Attribute
          \/ ElementHeadClose
          \/ ElementFoot
          \/ Text]_vars

----------------------------------------------------------------------------
(* Serializer: Element::write_to over the encoder *)

\* ItemWriter::new: the namespace tracker (the scopes of the open elements,
\* the declarations made for the next element) and the document written,
\* held as the events the tokenizer reads back from its bytes
WriterNew ==
    [frames |-> <<>>, pending |-> EmptyMap, out |-> <<>>, head |-> FALSE, err |-> "Ok",
     items |-> <<>>, bytes |-> <<>>, decls |-> <<>>]

\* encoder: the bytes written for a text or for an attribute value, with the
\* markup characters replaced (the quote of an attribute value by &#34;)
RECURSIVE encode_cdata(_, _)
encode_cdata(part, s) ==
    IF s = <<>> THEN <<>>
    ELSE (CASE Head(s) = "<" -> <<"&", "l", "t", ";">>
            [] Head(s) = ">" -> <<"&", "g", "t", ";">>
            [] Head(s) = "&" -> <<"&", "a", "m", "p", ";">>
            [] Head(s) = "\"" /\ part = "value" -> <<"&", "#", "3", "4", ";">>
            [] OTHER -> <<Head(s)>>)
         \o encode_cdata(part, Tail(s))

\* TrackNamespace::declare_fixed: a declaration for the next element, noted
\* with the number of items written before it
declare_fixed(w, p, namespace) ==
    [w EXCEPT !.pending = PrefixesInsert(@, p, namespace),
              !.decls = Append(@, [at |-> Len(w.items), prefix |-> p,
                                   namespace |-> namespace])]

\* TrackNamespace::lookup_prefix: Option<namespace>, None for Undeclared
tracker_lookup_prefix(w, p) == LookupFrom(w.frames, Len(w.frames), p)

\* the xmlns attributes that declare a scope, as the tokenizer yields them
RECURSIVE DeclarationsOf(_, _)
DeclarationsOf(scope, ps) ==
    IF ps = {} THEN <<>>
    ELSE LET p == IF None \in ps THEN None ELSE CHOOSE x \in ps : TRUE
             ev == IF p = None THEN [type |-> "Attribute", prefix |-> None,
                                     name |-> XMLNS, value |-> scope[p]]
                   ELSE [type |-> "Attribute", prefix |-> Some(XMLNS),
                         name |-> p[1], value |-> scope[p]]
         IN  <<ev>> \o DeclarationsOf(scope, ps \ {p})

\* the prefixes that stand for the namespace in these scopes
PrefixesOf(frames, namespace) ==
    {p \in UNION {DOMAIN frames[i] : i \in 1..Len(frames)} :
        LookupFrom(frames, Len(frames), p) = Some(namespace)}

\* encoder, Item::ElementHeadStart: the tag under a prefix that stands for
\* its namespace, declared as the default if none does; an element in no
\* namespace is written without prefix, with the default undeclared if bound
write_head_start(w, namespace, name) ==
    LET scopes == Append(w.frames, w.pending)
        ns == IF namespace = None THEN <<>> ELSE namespace[1]
        free == LookupFrom(scopes, Len(scopes), None) = None
        known == PrefixesOf(scopes, ns)
        p == IF known # {} /\ None \notin known THEN CHOOSE x \in known : TRUE ELSE None
        scope == IF known # {} \/ (namespace = None /\ free) THEN w.pending
                 ELSE PrefixesInsert(w.pending, None, ns)
    IN  [w EXCEPT !.frames = Append(@, scope),
                  !.pending = EmptyMap,
                  !.head = TRUE,
                  !.out = (@ \o <<[type |-> "ElementHeadOpen", prefix |-> p, name |-> name]>>)
                          \o DeclarationsOf(scope, DOMAIN scope)]

\* encoder, Item::Attribute: under a named prefix that stands for its namespace
write_attribute(w, namespace, name, value) ==
    LET p == IF namespace = None THEN None
             ELSE CHOOSE x \in PrefixesOf(w.frames, namespace[1]) \ {None} : TRUE
    IN  [w EXCEPT !.out = Append(@, [type |-> "Attribute", prefix |-> p,
                                     name |-> name, value |-> value]),
                  !.bytes = Append(@, [part |-> "value",
                                       bytes |-> encode_cdata("value", value)])]

\* encoder, Item::ElementHeadEnd
write_head_end(w) ==
    [w EXCEPT !.head = FALSE, !.out = Append(@, [type |-> "ElementHeadClose"])]

\* encoder, Item::Text: the bytes of the text follow the bytes before them
write_text(w, text) ==
    LET w1 == [w EXCEPT !.bytes = Append(@, [part |-> "text",
                                             bytes |-> encode_cdata("text", text)])]
    IN  IF text = <<>> THEN w1
        ELSE IF w.out[Len(w.out)].type = "Text"
        THEN [w1 EXCEPT !.out[Len(w.out)].text = @ \o text]
        ELSE [w1 EXCEPT !.out = Append(@, [type |-> "Text", text |-> text])]

\* encoder, Item::ElementFoot: closes the head too if it is still open
write_foot(w) ==
    [w EXCEPT !.frames = VecPop(@),
              !.head = FALSE,
              !.out = IF w.head
                      THEN @ \o <<[type |-> "ElementHeadClose"], [type |-> "ElementFoot"]>>
                      ELSE Append(@, [type |-> "ElementFoot"])]

\* changed: the bytes of a Text item are not written
write_without_text(w, item) ==
    LET w1 == [w EXCEPT !.items = Append(@, item)]
    IN  CASE item.item = "ElementHeadStart" -> write_head_start(w1, item.namespace, item.name)
          [] item.item = "Attribute" ->
                write_attribute(w1, item.namespace, item.name, item.value)
          [] item.item = "ElementHeadEnd" -> write_head_end(w1)
          [] item.item = "Text" -> w1
          [] item.item = "ElementFoot" -> write_foot(w1)

\* CustomItemWriter::write: the item goes to the encoder
write(w, item) ==
    LET w1 == [w EXCEPT !.items = Append(@, item)]
    IN  CASE item.item = "ElementHeadStart" -> write_head_start(w1, item.namespace, item.name)
          [] item.item = "Attribute" ->
                write_attribute(w1, item.namespace, item.name, item.value)
          [] item.item = "ElementHeadEnd" -> write_head_end(w1)
          [] item.item = "Text" -> write_text(w1, item.text)
          [] item.item = "ElementFoot" -> write_foot(w1)

\* write_to_inner: the loop over the declared prefixes
RECURSIVE declare_prefixes(_, _, _)
declare_prefixes(prefixes, ps, w) ==
    IF ps = {} THEN w
    ELSE LET p == IF None \in ps THEN None ELSE CHOOSE x \in ps : TRUE
         IN  declare_prefixes(prefixes, ps \ {p}, declare_fixed(w, p, prefixes[p]))

RECURSIVE write_attributes(_, _, _)
RECURSIVE write_attributes_own_scope(_, _, _)
\* changed: a prefix is looked up among the declarations of the element alone
write_attributes_own_scope(as, i, w) ==
    IF i > Len(as) THEN w
    ELSE LET key == split_name(as[i][1])
             namespace == IF key[1] # None
                          THEN MapGet(w.frames[Len(w.frames)], key[1]) ELSE None
         IN  IF key[1] # None /\ namespace = None
             THEN [w EXCEPT !.err = "InvalidPrefix"]
             ELSE write_attributes_own_scope(as, i + 1,
                      write(w, [item |-> "Attribute", namespace |-> namespace,
                                name |-> key[2], value |-> as[i][2]]))

\* write_to_inner: the loop over the attributes
write_attributes(as, i, w) ==
    IF i > Len(as) THEN w
    ELSE LET key == split_name(as[i][1])
             namespace == IF key[1] # None THEN tracker_lookup_prefix(w, key[1]) ELSE None
         IN  IF key[1] # None /\ namespace = None
             THEN [w EXCEPT !.err = "InvalidPrefix"]
             ELSE write_attributes(as, i + 1,
                      write(w, [item |-> "Attribute", namespace |-> namespace,
                                name |-> key[2], value |-> as[i][2]]))

RECURSIVE write_to_inner(_, _)
RECURSIVE write_children(_, _, _)
RECURSIVE write_children_last_first(_, _, _)
\* changed: the children are written from the last to the first
write_children_last_first(children, i, w) ==
    IF i > Len(children) \/ w.err # "Ok" THEN w
    ELSE LET child == children[Len(children) + 1 - i]
         IN  write_children_last_first(children, i + 1,
                 IF child.kind = "Element" THEN write_to_inner(child.element, w)
                 ELSE write(w, [item |-> "Text", text |-> child.text]))

\* write_to_inner: the loop over the children (Node::write_to_inner)
write_children(children, i, w) ==
    IF i > Len(children) \/ w.err # "Ok" THEN w
    ELSE write_children(children, i + 1,
             IF children[i].kind = "Element" THEN write_to_inner(children[i].element, w)
             ELSE write(w, [item |-> "Text", text |-> children[i].text]))

\* mutant: an only child is not written
write_to_inner_skips_children(e, w) ==
    LET w1 == declare_prefixes(e.prefixes, DOMAIN e.prefixes, w)
        w2 == write(w1, [item |-> "ElementHeadStart",
                         namespace |-> IF e.namespace = <<>> THEN None
                                       ELSE Some(e.namespace),
                         name |-> e.name])
        w3 == write_attributes(attrs(e), 1, w2)
    IN  IF w3.err # "Ok" THEN w3
        ELSE LET w4 == IF Len(e.children) > 1
                       THEN write_children(e.children, 1, write(w3, [item |-> "ElementHeadEnd"]))
                       ELSE w3
             IN  IF w4.err # "Ok" THEN w4 ELSE write(w4, [item |-> "ElementFoot"])

\* changed: the head is ended whether or not there are children
write_to_inner_always_head_end(e, w) ==
    LET w1 == declare_prefixes(e.prefixes, DOMAIN e.prefixes, w)
        w2 == write(w1, [item |-> "ElementHeadStart",
                         namespace |-> IF e.namespace = <<>> THEN None
                                       ELSE Some(e.namespace),
                         name |-> e.name])
        w3 == write_attributes(attrs(e), 1, w2)
    IN  IF w3.err # "Ok" THEN w3
        ELSE LET w4 == write_children(e.children, 1, write(w3, [item |-> "ElementHeadEnd"]))
             IN  IF w4.err # "Ok" THEN w4 ELSE write(w4, [item |-> "ElementFoot"])

\* Element::write_to_inner
write_to_inner(e, w) ==
    LET w1 == declare_prefixes(e.prefixes, DOMAIN e.prefixes, w)
        w2 == write(w1, [item |-> "ElementHeadStart",
                         namespace |-> IF e.namespace = <<>> THEN None
                                       ELSE Some(e.namespace),
                         name |-> e.name])
        w3 == write_attributes(attrs(e), 1, w2)
    IN  IF w3.err # "Ok" THEN w3
        ELSE LET w4 == IF Len(e.children) # 0
                       THEN write_children(e.children, 1, write(w3, [item |-> "ElementHeadEnd"]))
                       ELSE w3
             IN  IF w4.err # "Ok" THEN w4 ELSE write(w4, [item |-> "ElementFoot"])

\* Element::write_to
write_to(e) == write_to_inner(e, WriterNew)

----------------------------------------------------------------------------
(* Namespace predicates and the read-only accessors of Element *)

\* NSChoice: None, OneOf(ns), AnyOf(nss), Any, in one record shape
NSChoice(choice, ns, nss) == [choice |-> choice, ns |-> ns, nss |-> nss]

\* From<&str> for NSChoice
NSChoiceFrom(ns) == NSChoice("OneOf", ns, <<>>)

\* Into<NSChoice> of an argument: an NSChoice as it is, a &str through From
IntoNSChoice(namespace) ==
    IF namespace.choice = "str" THEN NSChoiceFrom(namespace.ns) ELSE namespace

\* changed: AnyOf looks at the first namespace of the slice only
compare_anyof_first(choice, ns) ==
    CASE choice.choice = "None" -> FALSE
      [] choice.choice = "OneOf" -> ns = choice.ns
      [] choice.choice = "AnyOf" -> choice.nss # <<>> /\ ns = choice.nss[1]
      [] choice.choice = "Any" -> TRUE

\* NSChoice::compare
compare(choice, ns) ==
    CASE choice.choice = "None" -> FALSE
      [] choice.choice = "OneOf" -> ns = choice.ns
      [] choice.choice = "AnyOf" -> \E i \in 1..Len(choice.nss) : ns = choice.nss[i]
      [] choice.choice = "Any" -> TRUE

\* Element::is
is(e, name, namespace) == e.name = name /\ compare(IntoNSChoice(namespace), e.namespace)

\* Element::has_ns
has_ns(e, namespace) == compare(IntoNSChoice(namespace), e.namespace)

RECURSIVE get_child(_, _, _)
\* Element::get_child: the loop over self.children, one node a turn
get_child(e, name, namespace) ==
    IF e.children = <<>> THEN None
    ELSE LET fork == Head(e.children)
         IN  IF fork.kind = "Element" /\ is(fork.element, name, namespace)
             THEN Some(fork.element)
             ELSE get_child([e EXCEPT !.children = Tail(@)], name, namespace)

\* Element::has_child
has_child(e, name, namespace) == get_child(e, name, namespace) # None

\* changed: next looks at one node and gives up when it is not an Element
ChildrenNext_one_node(iter) ==
    IF iter = <<>> THEN [item |-> None, iter |-> <<>>]
    ELSE IF Head(iter).kind = "Element"
         THEN [item |-> Some(Head(iter).element), iter |-> Tail(iter)]
         ELSE [item |-> None, iter |-> Tail(iter)]

RECURSIVE ChildrenNext(_)
\* Iterator for Children: next, over the nodes the slice iterator has left
ChildrenNext(iter) ==
    IF iter = <<>> THEN [item |-> None, iter |-> <<>>]
    ELSE IF Head(iter).kind = "Element"
         THEN [item |-> Some(Head(iter).element), iter |-> Tail(iter)]
         ELSE ChildrenNext(Tail(iter))

RECURSIVE TextsNext(_)
\* Iterator for Texts: next
TextsNext(iter) ==
    IF iter = <<>> THEN [item |-> None, iter |-> <<>>]
    ELSE IF Head(iter).kind = "Text"
         THEN [item |-> Some(Head(iter).text), iter |-> Tail(iter)]
         ELSE TextsNext(Tail(iter))

\* Element::nodes
nodes(e) == e.children

\* Element::children, as the items its iterator yields until it ends
children(e) ==
    LET RECURSIVE items(_)
        items(iter) ==
            LET r == ChildrenNext(iter)
            IN  IF r.item = None THEN <<>> ELSE <<r.item[1]>> \o items(r.iter)
    IN  items(e.children)

\* Element::texts, as the items its iterator yields until it ends
texts(e) ==
    LET RECURSIVE items(_)
        items(iter) ==
            LET r == TextsNext(iter)
            IN  IF r.item = None THEN <<>> ELSE <<r.item[1]>> \o items(r.iter)
    IN  items(e.children)

RECURSIVE text_with_descendants(_)
\* changed: the text of the child elements is taken in as well
text_with_descendants(e) ==
    LET RECURSIVE fold(_, _)
        fold(retv, cs) ==
            IF cs = <<>> THEN retv
            ELSE fold(retv \o (IF Head(cs).kind = "Text" THEN Head(cs).text
                               ELSE text_with_descendants(Head(cs).element)),
                      Tail(cs))
    IN  fold(<<>>, e.children)

\* Element::text: texts().fold(String::new(), |ret, new| ret + new)
text(e) ==
    LET RECURSIVE fold(_, _)
        fold(retv, ts) == IF ts = <<>> THEN retv ELSE fold(retv \o Head(ts), Tail(ts))
    IN  fold(<<>>, texts(e))

----------------------------------------------------------------------------
(* A program calling the Element API *)

\* an element that declares a prefix
ChildP == builder_prefix(builder(NameA, NS1), Some(P1), NS2).root

ChildBV == set_attr(bare(NameB, NS1), KeyId, Some(ValV)).e

ChildAV == set_attr(bare(NameA, NS2), KeyId, Some(ValV)).e

ChildAW == set_attr(bare(NameA, NS1), KeyId, Some(ValW)).e

\* text, then three children with an id, two of them with the same, then text
Mixed ==
    append_text_node(
        append_child(
            append_child(
                append_child(append_text_node(bare(NameA, NS1), TextT), ChildAW),
                ChildBV),
            ChildAV),
        TextT)

StartElements == {bare(NameA, NS1), bare(NameA, <<>>), Mixed}

\* an attribute key spelled prefix:local
KeyPK == P1 \o <<":">> \o KeyK

AttrNames == IF mode = "roundtrip" THEN {KeyK, KeyPK} ELSE {KeyId, KeyK}

AttrValues ==
    IF mode = "roundtrip" THEN {None, Some(<<"\"", "v">>)}
    ELSE {None, Some(ValV), Some(ValW)}

\* an element whose child declares a prefix
WrapP == append_child(bare(NameA, NS1), ChildP)

\* a child with a text and a child of its own
Nested == append_child(append_text_node(bare(NameB, NS2), <<"u">>), bare(NameA, NS1))

\* an element with two declarations, two attributes, a text and then a
\* child that has children
Rich ==
    LET b1 == builder_prefix(builder(NameB, NS1), None, NS1).root
        b2 == builder_prefix(b1, Some(P1), NS2).root
        b3 == builder_attr(builder_attr(b2, KeyPK, Some(ValW)).e, KeyK, Some(ValV)).e
    IN  append_child(append_text_node(b3, TextT), Nested)

SpareElements ==
    CASE mode = "query" -> {Nested, bare(NameA, <<>>)}
      [] mode = "roundtrip" ->
            {ChildP, WrapP, Rich, set_attr(bare(NameB, NS1), KeyPK, Some(ValV)).e}
      [] OTHER -> {ChildP, WrapP}

ChildElements ==
    IF mode = "roundtrip" THEN {spare, ChildAV} ELSE {spare, ChildBV, bare(NameA, NS1)}

TextValues == IF mode = "roundtrip" THEN {<<"<", "3">>, <<>>} ELSE {TextT, <<>>}

NodeValues ==
    {NodeText(IF mode = "roundtrip" THEN <<"<", "3">> ELSE TextT), NodeElement(spare)}

IdValues == {ValV, ValW}

BareArgs == {<<NameA, NS1>>, <<NameB, NS1>>, <<NameA, <<>>>>}

PrefixArgs ==
    IF mode = "roundtrip" THEN {<<Some(P1), NS1>>, <<Some(P1), NS2>>}
    ELSE {<<None, NS1>>, <<Some(P1), NS1>>, <<Some(P1), NS2>>}

\* one call on elem: what it leaves in elem, what it returns, whether it panicked
Call(op, arg, e, r, panic) ==
    /\ mode \in {"api", "roundtrip", "query"}
    /\ ~panicked
    /\ written = None
    /\ nops < (IF mode = "query" THEN MaxBuild ELSE MaxOps)
    /\ elem' = e
    /\ ret' = r
    /\ panicked' = panic
    /\ lastop' = [op |-> op, arg |-> arg, pre |-> elem]
    /\ nops' = nops + 1
    /\ UNCHANGED <<mode, written, builderVars>>

\* Element::bare
Bare ==
    \E a \in BareArgs :
        /\ Call("bare", a, bare(a[1], a[2]), "unit", FALSE)
        /\ phase' = "element"
        /\ UNCHANGED spare

\* Element::builder
Builder ==
    \E a \in BareArgs :
        /\ Call("builder", a, builder(a[1], a[2]), "unit", FALSE)
        /\ phase' = "builder"
        /\ UNCHANGED spare

\* ElementBuilder::prefix
BuilderPrefix ==
    \E a \in PrefixArgs :
        /\ phase = "builder"
        /\ LET r == builder_prefix(elem, a[1], a[2])
           IN  /\ Call("prefix", a, r.root, r.res, FALSE)
               /\ phase' = IF r.res = "Ok" THEN "builder" ELSE "dropped"
        /\ UNCHANGED spare

\* ElementBuilder::build
Build ==
    /\ phase = "builder"
    /\ Call("build", <<>>, elem, "unit", FALSE)
    /\ phase' = "element"
    /\ UNCHANGED spare

\* Element::set_attr, ElementBuilder::attr
SetAttr ==
    \E name \in AttrNames, val \in AttrValues :
        /\ phase \in {"builder", "element"}
        /\ LET r == IF phase = "builder" THEN builder_attr(elem, name, val)
                    ELSE set_attr(elem, name, val)
           IN  Call("set_attr", <<name, val>>, r.e, "unit", r.panic)
        /\ UNCHANGED <<spare, phase>>

\* Element::append_child
AppendChild ==
    \E child \in ChildElements :
        /\ phase = "element"
        /\ LET e == append_child(elem, child)
               last_mut == e.children[Len(e.children)]
           IN  Call("append_child", <<child>>, e,
                    IF last_mut.kind = "Element" THEN last_mut.element ELSE "unreachable",
                    FALSE)
        /\ UNCHANGED <<spare, phase>>

\* Element::append_text_node
AppendTextNode ==
    \E s \in TextValues :
        /\ phase = "element"
        /\ Call("append_text_node", <<s>>, append_text_node(elem, s), "unit", FALSE)
        /\ UNCHANGED <<spare, phase>>

\* Element::append_node, ElementBuilder::append
AppendNode ==
    \E node \in NodeValues :
        /\ phase \in {"builder", "element"}
        /\ LET e == IF phase = "builder" THEN builder_append(elem, node)
                    ELSE append_node(elem, node)
           IN  Call("append_node", <<node>>, e, "unit", FALSE)
        /\ UNCHANGED <<spare, phase>>

\* Element::remove_child
RemoveChild ==
    \E id \in IdValues :
        /\ phase = "element"
        /\ LET r == remove_child(elem, id)
           IN  Call("remove_child", <<id>>, r.e, r.ret, FALSE)
        /\ UNCHANGED <<spare, phase>>

\* Element::unshift_child
UnshiftChild ==
    /\ phase = "element"
    /\ LET r == unshift_child(elem)
       IN  Call("unshift_child", <<>>, r.e, r.ret, FALSE)
    /\ UNCHANGED <<spare, phase>>

\* Clone for Element
Clone ==
    /\ phase = "element"
    /\ Call("clone", <<>>, elem, "unit", FALSE)
    /\ spare' = elem
    /\ UNCHANGED phase

\* elem == spare
Eq ==
    /\ phase = "element"
    /\ Call("eq", <<spare>>, elem, ElementEq(elem, spare), FALSE)
    /\ UNCHANGED <<spare, phase>>

InitElement(m) ==
    /\ mode = m
    /\ \E e \in StartElements : elem = e
    /\ phase \in {"builder", "element"}
    /\ phase = "builder" => elem.children = <<>>
    /\ \E e \in SpareElements : spare = e
    /\ ret = "unit"
    /\ panicked = FALSE
    /\ written = None
    /\ lastop = NoOp
    /\ nops = 0
    /\ prefixes_stack = TreeBuilderNew.prefixes_stack
    /\ initial = <<>>
    /\ next_tag = TreeBuilderNew.next_tag
    /\ stack = TreeBuilderNew.stack
    /\ root = TreeBuilderNew.root
    /\ status = "reading"
    /\ returned = None
    /\ events = <<>>
    /\ closed = {}
    /\ last = NoEvent

NextElement ==
    \/ Bare
    \/ Builder
    \/ BuilderPrefix
    \/ Build
    \/ SetAttr
    \/ AppendChild
    \/ AppendTextNode
    \/ AppendNode
    \/ RemoveChild
    \/ UnshiftChild
    \/ Clone
    \/ Eq

SpecElement == InitElement("api") /\ [][NextElement]_vars

\* Element::write_to
WriteTo ==
    /\ mode = "roundtrip"
    /\ phase = "element"
    /\ ~panicked
    /\ written = None
    /\ LET w == write_to(elem)
       IN  /\ written' = Some([items |-> w.items, out |-> w.out, bytes |-> w.bytes,
                            decls |-> w.decls])
           /\ ret' = w.err
    /\ lastop' = [op |-> "write_to", arg |-> <<>>, pre |-> elem]
    /\ UNCHANGED <<mode, elem, spare, phase, panicked, nops, builderVars>>

\* Element::from_reader over the document written
FromReader ==
    /\ mode = "roundtrip"
    /\ written # None
    /\ ret = "Ok"
    /\ lastop.op = "write_to"
    /\ LET r == from_reader(written[1].out, <<>>)
       IN  /\ status' = r.status
           /\ returned' = r.returned
    /\ events' = written[1].out
    /\ lastop' = [op |-> "from_reader", arg |-> <<>>, pre |-> elem]
    /\ UNCHANGED <<mode, elem, spare, phase, ret, panicked, written, nops,
                   next_tag, stack, prefixes_stack, root, initial, closed, last>>

NextRoundTrip ==
    \/ Bare
    \/ Builder
    \/ BuilderPrefix
    \/ Build
    \/ SetAttr
    \/ AppendChild
    \/ AppendTextNode
    \/ AppendNode
    \/ RemoveChild
    \/ UnshiftChild
    \/ Clone
    \/ WriteTo
    \/ FromReader

\* trees built through the API, written and read back
SpecRoundTrip == InitElement("roundtrip") /\ [][NextRoundTrip]_vars

\* the namespace arguments of a query: NSChoice values and bare strings
NamespaceArgs ==
    {NSChoice("None", <<>>, <<>>), NSChoice("Any", <<>>, <<>>),
     NSChoice("OneOf", NS1, <<>>), NSChoice("AnyOf", <<>>, <<>>),
     NSChoice("AnyOf", <<>>, <<NS2, NS1>>),
     NSChoice("str", NS2, <<>>), NSChoice("str", <<>>, <<>>)}

\* one call that reads elem and returns r
Query(op, arg, r) ==
    /\ mode = "query"
    /\ phase = "element"
    /\ ~panicked
    /\ ret' = r
    /\ lastop' = [op |-> op, arg |-> arg, pre |-> elem]
    /\ UNCHANGED <<mode, elem, spare, phase, panicked, written, nops, builderVars>>

\* Element::get_child
GetChild ==
    \E name \in {NameA, NameB}, namespace \in NamespaceArgs :
        Query("get_child", <<name, namespace>>, get_child(elem, name, namespace))

\* Element::has_child
HasChild ==
    \E name \in {NameA, NameB}, namespace \in NamespaceArgs :
        Query("has_child", <<name, namespace>>, has_child(elem, name, namespace))

\* Element::is
Is ==
    \E name \in {NameA, NameB}, namespace \in NamespaceArgs :
        Query("is", <<name, namespace>>, is(elem, name, namespace))

\* Element::has_ns
HasNs ==
    \E namespace \in NamespaceArgs :
        Query("has_ns", <<namespace>>, has_ns(elem, namespace))

\* Element::children, iterated to its end
Children == Query("children", <<>>, children(elem))

\* Element::texts, iterated to its end
Texts == Query("texts", <<>>, texts(elem))

\* Element::nodes, iterated to its end
Nodes == Query("nodes", <<>>, nodes(elem))

\* Element::text
TextOf == Query("text", <<>>, text(elem))

NextQuery ==
    \/ Bare
    \/ AppendChild
    \/ AppendTextNode
    \/ AppendNode
    \/ Clone
    \/ GetChild
    \/ HasChild
    \/ Is
    \/ HasNs
    \/ Children
    \/ Texts
    \/ Nodes
    \/ TextOf

\* elements built through the API and then read
SpecQuery == InitElement("query") /\ [][NextQuery]_vars

----------------------------------------------------------------------------
(* escape *)

\* changed: loc is set to the position found, not moved on by it
escape_loc_from_start(raw) ==
    LET to_escape(b) == b \in {"<", ">", "'", "&", "\""}
        entity(b) ==
            CASE b = "<" -> <<"&", "l", "t", ";">>
              [] b = ">" -> <<"&", "g", "t", ";">>
              [] b = "'" -> <<"&", "a", "p", "o", "s", ";">>
              [] b = "&" -> <<"&", "a", "m", "p", ";">>
              [] b = "\"" -> <<"&", "q", "u", "o", "t", ";">>
        position(bytes) ==
            IF \E i \in 1..Len(bytes) : to_escape(bytes[i])
            THEN Some((CHOOSE i \in 1..Len(bytes) :
                          /\ to_escape(bytes[i])
                          /\ \A j \in 1..(i - 1) : ~to_escape(bytes[j])) - 1)
            ELSE None
        RECURSIVE scan(_, _, _)
        scan(bytes, loc, escapes) ==
            LET i == position(bytes)
            IN  IF i = None \/ i[1] >= Len(raw) THEN escapes
                ELSE IF ~to_escape(raw[i[1] + 1]) THEN escapes
                ELSE scan(SubSeq(bytes, i[1] + 2, Len(bytes)), i[1] + 1,
                          Append(escapes, <<i[1], entity(raw[i[1] + 1])>>))
        escapes == scan(raw, 0, <<>>)
        RECURSIVE extend(_, _, _)
        extend(k, start, v) ==
            IF k > Len(escapes) THEN [v |-> v, start |-> start]
            ELSE extend(k + 1, escapes[k][1] + 1,
                        v \o SubSeq(raw, start + 1, escapes[k][1]) \o escapes[k][2])
    IN  IF escapes = <<>> THEN raw
        ELSE LET r == extend(1, 0, <<>>)
             IN  IF r.start < Len(raw) THEN r.v \o SubSeq(raw, r.start + 1, Len(raw))
                 ELSE r.v

\* escape: the positions of the bytes to replace are collected in escapes,
\* then the output is put together from the bytes between them
escape(raw) ==
    LET to_escape(b) == b \in {"<", ">", "'", "&", "\""}
        entity(b) ==
            CASE b = "<" -> <<"&", "l", "t", ";">>
              [] b = ">" -> <<"&", "g", "t", ";">>
              [] b = "'" -> <<"&", "a", "p", "o", "s", ";">>
              [] b = "&" -> <<"&", "a", "m", "p", ";">>
              [] b = "\"" -> <<"&", "q", "u", "o", "t", ";">>
        \* Iterator::position: how many bytes come before the first to escape
        position(bytes) ==
            IF \E i \in 1..Len(bytes) : to_escape(bytes[i])
            THEN Some((CHOOSE i \in 1..Len(bytes) :
                          /\ to_escape(bytes[i])
                          /\ \A j \in 1..(i - 1) : ~to_escape(bytes[j])) - 1)
            ELSE None
        RECURSIVE scan(_, _, _)
        scan(bytes, loc, escapes) ==
            LET i == position(bytes)
            IN  IF i = None THEN escapes
                ELSE scan(SubSeq(bytes, i[1] + 2, Len(bytes)), loc + i[1] + 1,
                          Append(escapes, <<loc + i[1], entity(raw[loc + i[1] + 1])>>))
        escapes == scan(raw, 0, <<>>)
        RECURSIVE extend(_, _, _)
        extend(k, start, v) ==
            IF k > Len(escapes) THEN [v |-> v, start |-> start]
            ELSE extend(k + 1, escapes[k][1] + 1,
                        v \o SubSeq(raw, start + 1, escapes[k][1]) \o escapes[k][2])
    IN  IF escapes = <<>> THEN raw
        ELSE LET r == extend(1, 0, <<>>)
             IN  IF r.start < Len(raw) THEN r.v \o SubSeq(raw, r.start + 1, Len(raw))
                 ELSE r.v

\* the byte sequences escape is called with
RawInputs ==
    UNION {[1..n -> {"<", ">", "'", "&", "\"", "a", "3"}] : n \in 0..MaxRaw}

\* escape, called once
Escape ==
    /\ mode = "escape"
    /\ nops = 0
    /\ \E raw \in RawInputs :
          /\ ret' = escape(raw)
          /\ lastop' = [op |-> "escape", arg |-> <<raw>>, pre |-> elem]
    /\ nops' = nops + 1
    /\ UNCHANGED <<mode, elem, spare, phase, panicked, written, builderVars>>

\* calls of escape
SpecEscape == InitBuilder("escape") /\ [][Escape]_vars

----------------------------------------------------------------------------
(* What the claims speak of *)

\* the last event closed the head of a buffered tag
HeadClosed == last.ev.type = "ElementHeadClose" /\ last.pre.next_tag # None

LastTag == last.pre.next_tag[1]

\* The scopes the XML scoping rules make visible to the tag whose head was
\* closed, outermost first: the initial scopes, the declarations of each
\* element open before the event, the tag's own declarations.
VisibleScopes ==
    initial \o [i \in 1..Len(last.pre.stack) |-> last.pre.stack[i].prefixes]
            \o <<LastTag.prefixes>>

Declares(scopes, p) == \E i \in 1..Len(scopes) : p \in DOMAIN scopes[i]

\* the innermost of the scopes that declares p
Innermost(scopes, p) ==
    CHOOSE i \in 1..Len(scopes) :
        /\ p \in DOMAIN scopes[i]
        /\ \A j \in (i + 1)..Len(scopes) : p \notin DOMAIN scopes[j]

\* the Attribute events of the head that was closed
LastHeadAttrs ==
    IF ~HeadClosed THEN <<>>
    ELSE LET n == AttrsInHead(events, Len(events) - 1)
         IN  SubSeq(events, Len(events) - n, Len(events) - 1)

IsDeclaration(ev) ==
    (ev.prefix = None /\ ev.name = XMLNS) \/ ev.prefix = Some(XMLNS)

\* C1: a prefix declared only on an element that is already closed is not
\* visible afterwards: a later tag that uses it, when neither the tag itself
\* nor a still-open ancestor nor an initial scope declares it, fails at its
\* ElementHeadClose with MissingNamespace.
C1_SiblingScopeIsolation ==
    (/\ HeadClosed
     /\ LastTag.prefix \in closed
     /\ ~Declares(VisibleScopes, LastTag.prefix))
        => last.res = "MissingNamespace" /\ status = "MissingNamespace"

C1_Witness ==
    /\ HeadClosed
    /\ LastTag.prefix \in closed
    /\ Len(last.pre.stack) > 0
    /\ Len(last.pre.stack[Len(last.pre.stack)].children) > 0
    /\ ~Declares(VisibleScopes, LastTag.prefix)
    /\ status = "MissingNamespace"

\* C2: the namespace of the new element is the binding of the tag's prefix in
\* the innermost scope that declares it: its own declarations, then the open
\* ancestors from the nearest to the farthest, then the initial scopes.
C2_InnermostWins ==
    (HeadClosed /\ Declares(VisibleScopes, LastTag.prefix))
        => /\ last.res = "Ok"
           /\ Len(stack) = Len(last.pre.stack) + 1
           /\ stack[Len(stack)].namespace =
                 VisibleScopes[Innermost(VisibleScopes, LastTag.prefix)][LastTag.prefix]

\* a grandchild declares the prefix back to what the grandparent bound it
\* to, the child in between having bound it to something else
C2_Witness ==
    /\ HeadClosed
    /\ Len(last.pre.stack) = 2
    /\ LET p == LastTag.prefix
       IN  /\ p \in DOMAIN LastTag.prefixes
           /\ p \in DOMAIN last.pre.stack[1].prefixes
           /\ p \in DOMAIN last.pre.stack[2].prefixes
           /\ LastTag.prefixes[p] = last.pre.stack[1].prefixes[p]
           /\ LastTag.prefixes[p] # last.pre.stack[2].prefixes[p]
           /\ Len(stack) = 3
           /\ stack[3].namespace = LastTag.prefixes[p]

\* C3: ElementHeadClose fails with MissingNamespace exactly when no visible
\* scope binds the tag's prefix, None only by a default binding and Some(p)
\* only by a binding of Some(p).
C3_MissingNamespaceIff ==
    HeadClosed =>
        /\ last.res = "MissingNamespace" <=> ~Declares(VisibleScopes, LastTag.prefix)
        /\ status = "MissingNamespace" <=> ~Declares(VisibleScopes, LastTag.prefix)

\* an unprefixed child fails under a parent that declares only xmlns:p1
C3_Witness ==
    /\ HeadClosed
    /\ LastTag.prefix = None
    /\ Len(last.pre.stack) = 1
    /\ DOMAIN last.pre.stack[1].prefixes = {Some(P1)}
    /\ initial = <<>>
    /\ status = "MissingNamespace"

\* a regular attribute of the closed head whose prefix no visible scope declares
UndeclaredAttributePrefix(ev) ==
    /\ ~IsDeclaration(ev)
    /\ ev.prefix # None
    /\ ~Declares(VisibleScopes, ev.prefix)

\* C4 as stated: an attribute prefix that no visible scope declares makes
\* ElementHeadClose fail with MissingNamespace.
C4_AttributePrefixFails ==
    (HeadClosed /\ \E i \in 1..Len(LastHeadAttrs) : UndeclaredAttributePrefix(LastHeadAttrs[i]))
        => last.res = "MissingNamespace"

\* C4 amended: only the tag's own prefix is resolved. A regular attribute
\* whose prefix no visible scope declares does not fail the parse: when the
\* tag's prefix resolves, ElementHeadClose succeeds and the element holds
\* the attribute under the key prefix:local.
C4_AttributePrefixIgnored ==
    \A i \in 1..Len(LastHeadAttrs) :
        (/\ HeadClosed
         /\ UndeclaredAttributePrefix(LastHeadAttrs[i])
         /\ Declares(VisibleScopes, LastTag.prefix))
            => /\ last.res = "Ok"
               /\ status # "MissingNamespace"
               /\ FormatKey(LastHeadAttrs[i].prefix[1], LastHeadAttrs[i].name)
                     \in DOMAIN stack[Len(stack)].attributes

C4_Witness ==
    /\ HeadClosed
    /\ Len(LastHeadAttrs) > 0
    /\ UndeclaredAttributePrefix(LastHeadAttrs[1])
    /\ last.res = "Ok"
    /\ FormatKey(P1, KeyK) \in DOMAIN stack[Len(stack)].attributes

\* In a document of one tag: where its ElementHeadOpen is in the events read,
\* its Attribute events, and the same document with other Attribute events.
HeadAt == CHOOSE i \in 1..Len(events) : events[i].type = "ElementHeadOpen"

DocAttrs ==
    LET n == Cardinality({i \in 1..Len(events) : events[i].type = "Attribute"})
    IN  SubSeq(events, HeadAt + 1, HeadAt + n)

WithAttrs(as) ==
    SubSeq(events, 1, HeadAt) \o as
        \o SubSeq(events, HeadAt + Len(DocAttrs) + 1, Len(events))

Perms(n) == {f \in [1..n -> 1..n] : \A i, j \in 1..n : f[i] = f[j] => i = j}

AttrKey(ev) == IF ev.prefix = None THEN ev.name ELSE FormatKey(ev.prefix[1], ev.name)

RegularKeysDistinct(as) ==
    \A i, j \in 1..Len(as) :
        (i # j /\ ~IsDeclaration(as[i]) /\ ~IsDeclaration(as[j]))
            => AttrKey(as[i]) # AttrKey(as[j])

DeclaredPrefixesDistinct(as) ==
    \A i, j \in 1..Len(as) :
        (i # j /\ IsDeclaration(as[i]) /\ IsDeclaration(as[j]))
            => AttrKey(as[i]) # AttrKey(as[j])

OneTagParsed == mode = "head" /\ status = "Ok"

\* C7 as stated: when the regular attributes of a tag have distinct keys,
\* every order of its Attribute events (xmlns declarations among them) parses
\* to an equal Element, and another value for one attribute to an unequal one.
C7_AnyOrderOfAttributeEvents ==
    (OneTagParsed /\ RegularKeysDistinct(DocAttrs)) =>
        \A f \in Perms(Len(DocAttrs)) :
            LET r == from_reader(WithAttrs([i \in 1..Len(DocAttrs) |-> DocAttrs[f[i]]]), initial)
            IN  r.status = "Ok" /\ ElementEq(returned[1], r.returned[1])

\* C7 amended: when the regular attributes of a tag have distinct keys and
\* its xmlns declarations declare distinct prefixes, every order of its
\* Attribute events parses to the same Element (equal, and with the same
\* prefix declarations), and another value for one regular attribute parses
\* to an unequal Element.
C7_AttributeOrderIndependence ==
    (OneTagParsed /\ RegularKeysDistinct(DocAttrs) /\ DeclaredPrefixesDistinct(DocAttrs)) =>
        /\ \A f \in Perms(Len(DocAttrs)) :
              LET r == from_reader(WithAttrs([i \in 1..Len(DocAttrs) |-> DocAttrs[f[i]]]), initial)
              IN  /\ r.status = "Ok"
                  /\ ElementEq(returned[1], r.returned[1])
                  /\ r.returned = returned
        /\ \A i \in 1..Len(DocAttrs) : \A v \in {ValV, ValW} :
              (~IsDeclaration(DocAttrs[i]) /\ v # DocAttrs[i].value) =>
                  LET r == from_reader(WithAttrs([DocAttrs EXCEPT ![i].value = v]), initial)
                  IN  r.status = "Ok" /\ ~ElementEq(returned[1], r.returned[1])

\* two regular attributes and a declaration, in an order that is not the key order
C7_Witness ==
    /\ OneTagParsed
    /\ Len(DocAttrs) = 3
    /\ RegularKeysDistinct(DocAttrs) /\ DeclaredPrefixesDistinct(DocAttrs)
    /\ ~IsDeclaration(DocAttrs[1]) /\ IsDeclaration(DocAttrs[2]) /\ ~IsDeclaration(DocAttrs[3])
    /\ StrLess(AttrKey(DocAttrs[3]), AttrKey(DocAttrs[1]))
    /\ Cardinality(DOMAIN returned[1].attributes) = 2

----------------------------------------------------------------------------
(* Claims about the Element API *)

\* the element with the prefix declarations removed at every depth
RECURSIVE StripPrefixes(_)
StripPrefixes(e) ==
    [e EXCEPT !.prefixes = EmptyMap,
              !.children = [i \in 1..Len(e.children) |->
                               IF e.children[i].kind = "Element"
                               THEN NodeElement(StripPrefixes(e.children[i].element))
                               ELSE e.children[i]]]

\* C5: two Elements compare equal exactly when they are the same tree once
\* the prefix declarations are left out at every depth: same name, same
\* namespace, same attribute mapping, same number of children, the children
\* pairwise the same in order, a Text never the same as an Element.
C5_EqualityStructuralPrefixInsensitive ==
    lastop.op = "eq" =>
        (ret <=> (StripPrefixes(elem) = StripPrefixes(spare)))

\* two trees that compare equal although a child of one declares a prefix
C5_Witness ==
    /\ lastop.op = "eq"
    /\ ret = TRUE
    /\ Len(elem.children) > 0
    /\ elem # spare

SetAttrName == lastop.arg[1]

SetAttrVal == lastop.arg[2]

\* C8: set_attr with an absent value on a key that is present panics and
\* leaves the attribute (and the element) as it was; no set_attr call
\* takes a key out of the attributes.
C8_AbsentOnPresentPanics ==
    lastop.op = "set_attr" =>
        /\ (SetAttrVal = None /\ SetAttrName \in DOMAIN lastop.pre.attributes) =>
               /\ panicked
               /\ attr(elem, SetAttrName) = attr(lastop.pre, SetAttrName)
               /\ elem = lastop.pre
        /\ DOMAIN lastop.pre.attributes \subseteq DOMAIN elem.attributes

C8_Witness ==
    /\ lastop.op = "set_attr"
    /\ SetAttrVal = None
    /\ SetAttrName \in DOMAIN lastop.pre.attributes
    /\ panicked

\* C9: set_attr(k, v) with a present v returns and makes attr(k) = v, whether
\* k was present or not; set_attr(k, absent) on a k that is not present
\* returns and changes nothing; in both cases the other attributes, the
\* name, the namespace, the prefixes and the children are as before.
C9_SetAttrInsertOverwriteFrame ==
    lastop.op = "set_attr" =>
        /\ SetAttrVal # None => ~panicked /\ attr(elem, SetAttrName) = SetAttrVal
        /\ (SetAttrVal = None /\ SetAttrName \notin DOMAIN lastop.pre.attributes) =>
               ~panicked /\ elem = lastop.pre
        /\ (SetAttrVal # None \/ SetAttrName \notin DOMAIN lastop.pre.attributes) =>
               /\ \A k \in (DOMAIN elem.attributes \cup DOMAIN lastop.pre.attributes)
                               \ {SetAttrName} :
                      attr(elem, k) = attr(lastop.pre, k)
               /\ elem.name = lastop.pre.name
               /\ elem.namespace = lastop.pre.namespace
               /\ elem.prefixes = lastop.pre.prefixes
               /\ elem.children = lastop.pre.children

\* an overwrite, on an element with another attribute and with children
C9_Witness ==
    /\ lastop.op = "set_attr"
    /\ SetAttrVal # None
    /\ SetAttrName \in DOMAIN lastop.pre.attributes
    /\ attr(lastop.pre, SetAttrName) # SetAttrVal
    /\ attr(elem, SetAttrName) = SetAttrVal
    /\ DOMAIN lastop.pre.attributes # {SetAttrName}
    /\ Len(elem.children) > 0

\* the indices of the children that are Elements whose attribute id is id
Matches(cs, id) ==
    {i \in 1..Len(cs) :
        /\ cs[i].kind = "Element"
        /\ KeyId \in DOMAIN cs[i].element.attributes
        /\ cs[i].element.attributes[KeyId] = id}

Least(S) == CHOOSE i \in S : \A j \in S : i <= j

Without(cs, i) == [j \in 1..(Len(cs) - 1) |-> IF j < i THEN cs[j] ELSE cs[j + 1]]

RemovedId == lastop.arg[1]

\* C10: remove_child(id) takes out and returns the first child that is an
\* Element with attribute id = id, leaving the others in their order; with
\* no such child it returns none and leaves the element as it was; after a
\* removal, the same call returns the next such child, or none.
C10_RemoveChildFirstMatch ==
    lastop.op = "remove_child" =>
        LET cs == lastop.pre.children
            M == Matches(cs, RemovedId)
        IN  IF M = {}
            THEN ret = None /\ elem = lastop.pre
            ELSE /\ ret = Some(cs[Least(M)].element)
                 /\ elem = [lastop.pre EXCEPT !.children = Without(cs, Least(M))]
                 /\ remove_child(elem, RemovedId).ret =
                        IF M \ {Least(M)} = {} THEN None
                        ELSE Some(cs[Least(M \ {Least(M)})].element)

\* a removal that skipped a Text and an Element with another id, and left
\* another child with the same id behind
C10_Witness ==
    /\ lastop.op = "remove_child"
    /\ LET cs == lastop.pre.children
           M == Matches(cs, RemovedId)
       IN  /\ Cardinality(M) >= 2
           /\ Least(M) >= 3
           /\ \E i \in 1..(Least(M) - 1) : cs[i].kind = "Text"
           /\ \E i \in 1..(Least(M) - 1) : cs[i].kind = "Element"
           /\ ret = Some(cs[Least(M)].element)

----------------------------------------------------------------------------
(* Claims about serialization *)

\* every namespace is not empty, no attribute key has a prefix, no Text is
\* empty and no Text follows a Text, at every depth
RECURSIVE Representable(_)
Representable(e) ==
    /\ e.namespace # <<>>
    /\ \A k \in DOMAIN e.attributes : ColonAt(k, 1) = 0
    /\ \A i \in 1..Len(e.children) :
          IF e.children[i].kind = "Text"
          THEN /\ e.children[i].text # <<>>
               /\ i > 1 => e.children[i - 1].kind # "Text"
          ELSE Representable(e.children[i].element)

RoundTrips ==
    /\ lastop.op = "write_to" => ret = "Ok"
    /\ lastop.op = "from_reader" =>
           /\ status = "Ok"
           /\ returned # None
           /\ ElementEq(returned[1], elem)

----------------------------------------------------------------------------
(* Claims about the children of an Element *)

\* the indices of the children that are Elements
ElementsAt(cs) == {i \in 1..Len(cs) : cs[i].kind = "Element"}

\* C11: unshift_child returns the first child that is an Element and leaves
\* as children the nodes that followed it, in order, the Text nodes before
\* it gone; with no Element child it returns none and leaves no children.
\* Nothing else of the element changes, and the call returns.
C11_UnshiftChildFirstElement ==
    lastop.op = "unshift_child" =>
        LET cs == lastop.pre.children
            E == ElementsAt(cs)
        IN  /\ IF E = {}
               THEN ret = None /\ elem.children = <<>>
               ELSE /\ ret = Some(cs[Least(E)].element)
                    /\ Len(elem.children) = Len(cs) - Least(E)
                    /\ \A i \in 1..Len(elem.children) :
                           elem.children[i] = cs[Least(E) + i]
            /\ elem = [lastop.pre EXCEPT !.children = elem.children]

\* Text nodes stood before the first Element, and nodes after it
C11_Witness ==
    /\ lastop.op = "unshift_child"
    /\ ElementsAt(lastop.pre.children) # {}
    /\ Least(ElementsAt(lastop.pre.children)) > 1
    /\ Len(elem.children) > 0
    /\ ret # None

\* the node an append call was given
AppendedNode ==
    IF lastop.op = "append_child" THEN NodeElement(lastop.arg[1])
    ELSE IF lastop.op = "append_text_node" THEN NodeText(lastop.arg[1])
    ELSE lastop.arg[1]

\* C15: append_child, append_text_node and append_node leave the children
\* as they were, followed by the one new node; name, namespace, prefixes
\* and attributes are as before; append_child returns the child it
\* appended, which is the last node.
C15_AppendAtEnd ==
    lastop.op \in {"append_child", "append_text_node", "append_node"} =>
        /\ Len(elem.children) = Len(lastop.pre.children) + 1
        /\ \A i \in 1..Len(lastop.pre.children) :
               elem.children[i] = lastop.pre.children[i]
        /\ elem.children[Len(elem.children)] = AppendedNode
        /\ elem = [lastop.pre EXCEPT !.children = elem.children]
        /\ lastop.op = "append_child" =>
               /\ ret = lastop.arg[1]
               /\ NodeElement(ret) = elem.children[Len(elem.children)]

\* a child appended to an element that has children and attributes
C15_Witness ==
    /\ lastop.op = "append_child"
    /\ Len(lastop.pre.children) > 1
    /\ lastop.pre.attributes # EmptyMap
    /\ ret = lastop.arg[1]

\* C20: ElementBuilder::prefix(p, ns) fails with DuplicatePrefix exactly when
\* p, the default prefix included, is declared on the element being built,
\* whatever its namespace; otherwise it binds p to ns and leaves the other
\* bindings and the rest of the element as they were.
C20_DuplicatePrefixIff ==
    lastop.op = "prefix" =>
        LET p == lastop.arg[1]
            namespace == lastop.arg[2]
        IN  /\ ret \in {"Ok", "DuplicatePrefix"}
            /\ ret = "DuplicatePrefix" <=> p \in DOMAIN lastop.pre.prefixes
            /\ ret = "Ok" =>
                   /\ phase = "builder"
                   /\ DOMAIN elem.prefixes = DOMAIN lastop.pre.prefixes \cup {p}
                   /\ elem.prefixes[p] = namespace
                   /\ \A q \in DOMAIN lastop.pre.prefixes :
                          elem.prefixes[q] = lastop.pre.prefixes[q]
                   /\ elem = [lastop.pre EXCEPT !.prefixes = elem.prefixes]

\* two prefixes were declared, and one of them is declared again with the
\* namespace it has
C20_Witness ==
    /\ lastop.op = "prefix"
    /\ ret = "DuplicatePrefix"
    /\ Cardinality(DOMAIN lastop.pre.prefixes) = 2
    /\ lastop.pre.prefixes[lastop.arg[1]] = lastop.arg[2]



----------------------------------------------------------------------------
(* Claims about reading an Element *)

\* what a namespace predicate asks of a namespace, as the documentation of
\* NSChoice words it; a bare string asks for that namespace
Satisfies(p, ns) ==
    CASE p.choice = "None" -> ns = <<>>
      [] p.choice \in {"OneOf", "str"} -> ns = p.ns
      [] p.choice = "AnyOf" -> ns \in {p.nss[i] : i \in DOMAIN p.nss}
      [] p.choice = "Any" -> TRUE

\* the direct children that are Elements of the name and namespace asked for
MatchesAt(cs, name, p) ==
    {i \in ElementsAt(cs) :
        cs[i].element.name = name /\ Satisfies(p, cs[i].element.namespace)}

\* C12: get_child(name, predicate) returns the first direct child Element
\* whose name is equal and whose namespace satisfies the predicate, or none
\* when there is no such child, never a grandchild and never a Text; and
\* has_child with the same arguments is true exactly when get_child returns a
\* child.
C12_GetChildFirstMatch ==
    /\ lastop.op = "get_child" =>
          LET cs == elem.children
              M == MatchesAt(cs, lastop.arg[1], lastop.arg[2])
          IN  ret = IF M = {} THEN None ELSE Some(cs[Least(M)].element)
    /\ lastop.op = "has_child" =>
          ret = (get_child(elem, lastop.arg[1], lastop.arg[2]) # None)

\* the n-th index of S in increasing order
Nth(S, n) == CHOOSE i \in S : Cardinality({j \in S : j <= i}) = n

\* C13: children() yields exactly the direct children that are Elements,
\* texts() exactly the contents of those that are Texts, nodes() all of them,
\* each in document order and from the first child on, so that children and
\* texts split nodes between them.
C13_IteratorsPartitionNodes ==
    LET cs == elem.children
        E == ElementsAt(cs)
        T == DOMAIN cs \ E
    IN  /\ lastop.op = "children" =>
              /\ Len(ret) = Cardinality(E)
              /\ \A n \in 1..Len(ret) : ret[n] = cs[Nth(E, n)].element
        /\ lastop.op = "texts" =>
              /\ Len(ret) = Cardinality(T)
              /\ \A n \in 1..Len(ret) : ret[n] = cs[Nth(T, n)].text
        /\ lastop.op = "nodes" => ret = cs
        /\ lastop.op \in {"children", "texts", "nodes"} =>
              /\ \A i \in T : cs[i].kind = "Text"
              /\ Cardinality(E) + Cardinality(T) = Len(cs)

\* children() was iterated over Elements that have a Text before them and a
\* Text between them
C13_Witness ==
    /\ lastop.op = "children"
    /\ Len(ret) >= 2
    /\ elem.children[1].kind = "Text"
    /\ \E i, j, k \in DOMAIN elem.children :
          /\ i < j /\ j < k
          /\ elem.children[i].kind = "Element"
          /\ elem.children[j].kind = "Text"
          /\ elem.children[k].kind = "Element"

RECURSIVE DirectText(_)
\* the contents of the Text nodes of cs, one after the other
DirectText(cs) ==
    IF cs = <<>> THEN <<>>
    ELSE (IF Head(cs).kind = "Text" THEN Head(cs).text ELSE <<>>) \o DirectText(Tail(cs))

\* C14: text() is the concatenation, in order, of the contents of the direct
\* Text children only; the text inside child elements is left out, and an
\* element without a Text child gives the empty string.
C14_TextOfDirectChildren ==
    lastop.op = "text" =>
        /\ ret = DirectText(elem.children)
        /\ (\A i \in DOMAIN elem.children : elem.children[i].kind = "Element") => ret = <<>>

\* text() was called on an element with two Text children and a child that
\* has a text of its own
C14_Witness ==
    /\ lastop.op = "text"
    /\ Cardinality(DOMAIN elem.children \ ElementsAt(elem.children)) >= 2
    /\ ret # <<>>
    /\ \E i \in ElementsAt(elem.children) :
          DirectText(elem.children[i].element.children) # <<>>

\* C16: has_ns(Any) is always true, has_ns(OneOf(ns)) is true exactly when
\* the namespace of the element equals ns, has_ns(AnyOf(set)) exactly when it
\* is in the set (never, for the empty set), a bare string behaves as OneOf
\* of that string, and is(name, p) is true exactly when the name is equal and
\* has_ns(p) is true.
C16_NamespacePredicates ==
    /\ lastop.op = "has_ns" =>
          LET p == lastop.arg[1]
              ns == elem.namespace
          IN  /\ p.choice = "Any" => ret = TRUE
              /\ p.choice = "OneOf" => ret = (ns = p.ns)
              /\ p.choice = "AnyOf" => ret = (ns \in {p.nss[i] : i \in DOMAIN p.nss})
              /\ p.choice = "AnyOf" /\ p.nss = <<>> => ret = FALSE
              /\ p.choice = "str" => ret = has_ns(elem, NSChoice("OneOf", p.ns, <<>>))
    /\ lastop.op = "is" =>
          ret = (elem.name = lastop.arg[1] /\ has_ns(elem, lastop.arg[2]))

\* has_ns(AnyOf) was true for a namespace that is not the first of the set
C16_Witness ==
    /\ lastop.op = "has_ns"
    /\ lastop.arg[1].choice = "AnyOf"
    /\ Len(lastop.arg[1].nss) >= 2
    /\ elem.namespace = lastop.arg[1].nss[2]
    /\ elem.namespace # lastop.arg[1].nss[1]
    /\ ret = TRUE

\* C17: the None predicate means that the element must have no namespace:
\* has_ns(NSChoice::None) is true for an element whose namespace is the empty
\* string and false for one whose namespace is not empty.
C17_NoneMeansNoNamespace ==
    lastop.op = "has_ns" /\ lastop.arg[1].choice = "None" =>
        ret = (elem.namespace = <<>>)

----------------------------------------------------------------------------
(* Claims about the items write_to hands to the writer *)

RECURSIVE PreorderScoped(_, _)
\* the elements of the tree of e in document order, each with the prefixes
\* declared on it and on the elements around it, the inner declaration first
PreorderScoped(e, outer) ==
    LET scope == [p \in DOMAIN outer \cup DOMAIN e.prefixes |->
                    IF p \in DOMAIN e.prefixes THEN e.prefixes[p] ELSE outer[p]]
        RECURSIVE below(_)
        below(cs) ==
            IF cs = <<>> THEN <<>>
            ELSE (IF Head(cs).kind = "Element"
                  THEN PreorderScoped(Head(cs).element, scope) ELSE <<>>)
                 \o below(Tail(cs))
    IN  <<[element |-> e, scope |-> scope]>> \o below(e.children)

ItemsAt(its, kind) == {i \in 1..Len(its) : its[i].item = kind}

\* the elements open after item i
Depth(its, i) ==
    Cardinality({j \in ItemsAt(its, "ElementHeadStart") : j <= i})
        - Cardinality({j \in ItemsAt(its, "ElementFoot") : j <= i})

\* C18: when write_to succeeds, its items hold one ElementHeadStart and one
\* matching ElementFoot for each element of the tree, properly nested, with
\* the attributes right after the ElementHeadStart and then an
\* ElementHeadEnd exactly when the element has a child node; an element
\* without children gives ElementHeadStart, its attributes and ElementFoot.
C18_BalancedItems ==
    lastop.op = "write_to" /\ ret = "Ok" =>
        LET its == written[1].items
            es == PreorderScoped(elem, EmptyMap)
            S == ItemsAt(its, "ElementHeadStart")
            F == ItemsAt(its, "ElementFoot")
        IN  /\ Cardinality(S) = Len(es)
            /\ Cardinality(F) = Len(es)
            /\ \A i \in 1..Len(its) : Depth(its, i) >= (IF i < Len(its) THEN 1 ELSE 0)
            /\ Depth(its, Len(its)) = 0
            /\ Cardinality(ItemsAt(its, "ElementHeadEnd"))
                  = Cardinality({k \in 1..Len(es) : es[k].element.children # <<>>})
            /\ \A k \in 1..Len(es) :
                  LET e == es[k].element
                      i == Nth(S, k)
                      a == i + 1 + Cardinality(DOMAIN e.attributes)
                      foot == Least({j \in F : j > i /\ Depth(its, j) = Depth(its, i) - 1})
                  IN  /\ its[i].name = e.name
                      /\ \A j \in (i + 1)..(a - 1) : its[j].item = "Attribute"
                      /\ IF e.children = <<>> THEN a = foot
                         ELSE /\ its[a].item = "ElementHeadEnd"
                              /\ a < foot
                              /\ \A j \in (a + 1)..(foot - 1) :
                                    its[j].item = "ElementHeadEnd" =>
                                        Depth(its, j) > Depth(its, i)

\* a tree was written in which an element with an attribute has no child and
\* an element below the root has a child
C18_Witness ==
    /\ lastop.op = "write_to"
    /\ ret = "Ok"
    /\ LET es == PreorderScoped(elem, EmptyMap)
       IN  /\ \E k \in 1..Len(es) :
                 es[k].element.children = <<>> /\ DOMAIN es[k].element.attributes # {}
           /\ \E k \in 2..Len(es) : es[k].element.children # <<>>

\* the attributes of the k-th element whose key has a prefix that nothing
\* around them declares
Undeclared(es, k) ==
    {i \in 1..Len(attrs(es[k].element)) :
        LET key == split_name(attrs(es[k].element)[i][1])
        IN  key[1] # None /\ key[1] \notin DOMAIN es[k].scope}

----------------------------------------------------------------------------
(* Claims about the end of from_reader *)

\* C21: from_reader and from_reader_with_prefixes fail with EndOfDocument
\* whenever the events end, with no error before, while no root element has
\* been closed, whether no event came, only declarations and text, or
\* elements are still open; no tree, and no part of one, is returned.
C21_EndOfDocument ==
    /\ last.ev.type = "EndOfStream" => status = "EndOfDocument"
    /\ status = "EndOfDocument" =>
          /\ last.ev.type = "EndOfStream"
          /\ returned = None
          /\ root = None
    /\ status \in {"reading", "EndOfDocument"} =>
          from_reader(events, initial) = [status |-> "EndOfDocument", returned |-> None]

\* the events ended while an element with a child was still open
C21_Witness ==
    /\ status = "EndOfDocument"
    /\ Len(stack) >= 1
    /\ stack[1].children # <<>>

\* events that may follow the ElementFoot of the root: none, a text, a second
\* element, a tag whose prefix nothing declares
AfterRoot ==
    {<<>>, <<EvText(TextT)>>,
     <<EvHeadOpen(None, NameB), EvAttribute(None, XMLNS, NS1), EvHeadClose, EvFoot>>,
     <<EvHeadOpen(Some(P1), NameB), EvHeadClose>>}

\* C22: from_reader returns the root at the ElementFoot that empties the
\* element stack and processes no event after it: the tree returned is the
\* same whatever events follow that ElementFoot.
C22_StopsAtRoot ==
    status = "Ok" =>
        /\ last.ev.type = "ElementFoot"
        /\ Len(last.pre.stack) = 1
        /\ stack = <<>>
        /\ returned = Some(last.pre.stack[1])
        /\ events[Len(events)] = last.ev
        /\ \A after \in AfterRoot :
              from_reader(events \o after, initial) = [status |-> "Ok", returned |-> returned]

\* a root with a child was returned, and events that fail on their own may
\* follow it
C22_Witness ==
    /\ status = "Ok"
    /\ \E i \in DOMAIN returned[1].children : returned[1].children[i].kind = "Element"
    /\ \E after \in AfterRoot : from_reader(after, initial).status = "MissingNamespace"

----------------------------------------------------------------------------
(* Claims about from_reader_with_prefixes *)

FirstHead(evs) == Least({i \in 1..Len(evs) : evs[i].type = "ElementHeadOpen"})

\* the Attribute events of the first tag of evs
RootAttrs(evs) ==
    {evs[i] : i \in {j \in (FirstHead(evs) + 1)..Len(evs) :
                        \A k \in (FirstHead(evs) + 1)..j : evs[k].type = "Attribute"}}

\* the prefix an xmlns attribute declares
DeclaredBy(ev) == IF ev.prefix = None THEN None ELSE Some(ev.name)

\* the root tag declares none of the prefixes of the scope S
RootLeaves(evs, S) ==
    \A ev \in RootAttrs(evs) : IsDeclaration(ev) => DeclaredBy(ev) \notin DOMAIN S

\* the document with the declarations of S written on its root tag
OnRoot(evs, S) ==
    SubSeq(evs, 1, FirstHead(evs)) \o DeclarationsOf(S, DOMAIN S)
        \o SubSeq(evs, FirstHead(evs) + 1, Len(evs))

\* the scopes of the document that the tag whose head was closed can see
DocumentScopes ==
    [i \in 1..Len(last.pre.stack) |-> last.pre.stack[i].prefixes] \o <<LastTag.prefixes>>

\* C23: from_reader_with_prefixes(doc, S) has S as the outermost scope: a
\* prefix that no element of the document declares is looked up in S, and a
\* declaration of the document comes before S. For a document whose root tag
\* declares none of the prefixes of S, the call ends as from_reader ends on
\* the document with the declarations of S written on the root tag, and
\* the two trees are equal (prefixes aside).
C23_InitialScopeOutermost ==
    initial # <<>> =>
        LET S == initial[1]
        IN  /\ (HeadClosed /\ Declares(DocumentScopes, LastTag.prefix)) =>
                  /\ last.res = "Ok"
                  /\ stack[Len(stack)].namespace =
                        DocumentScopes[Innermost(DocumentScopes, LastTag.prefix)][LastTag.prefix]
            /\ (HeadClosed /\ ~Declares(DocumentScopes, LastTag.prefix)) =>
                  IF LastTag.prefix \in DOMAIN S
                  THEN last.res = "Ok" /\ stack[Len(stack)].namespace = S[LastTag.prefix]
                  ELSE last.res = "MissingNamespace"
            /\ (status \in {"Ok", "MissingNamespace"} /\ RootLeaves(events, S)) =>
                  LET onroot == from_reader(OnRoot(events, S), <<>>)
                  IN  /\ onroot.status = status
                      /\ status = "Ok" => ElementEq(returned[1], onroot.returned[1])

\* a document was read whose root takes its namespace from the scope given
\* and has a child that declares the same prefix anew
C23_Witness ==
    /\ initial # <<>>
    /\ status = "Ok"
    /\ RootLeaves(events, initial[1])
    /\ returned[1].namespace = initial[1][None]
    /\ \E i \in DOMAIN returned[1].children :
          /\ returned[1].children[i].kind = "Element"
          /\ None \in DOMAIN returned[1].children[i].element.prefixes
          /\ returned[1].children[i].element.namespace # returned[1].namespace

----------------------------------------------------------------------------
(* Claims about escaping *)

SpecialBytes == {"<", ">", "&", "'", "\""}

\* what stands for one byte in the output of escape
Replacement(b) ==
    CASE b = "<" -> <<"&", "l", "t", ";">>
      [] b = ">" -> <<"&", "g", "t", ";">>
      [] b = "&" -> <<"&", "a", "m", "p", ";">>
      [] b = "'" -> <<"&", "a", "p", "o", "s", ";">>
      [] b = "\"" -> <<"&", "q", "u", "o", "t", ";">>
      [] OTHER -> <<b>>

RECURSIVE Replaced(_)
Replaced(raw) == IF raw = <<>> THEN <<>> ELSE Replacement(Head(raw)) \o Replaced(Tail(raw))

\* C24: escape(raw) is, byte after byte of raw, &lt; for <, &gt; for >,
\* &amp; for &, &apos; for ', &quot; for ", and the byte itself otherwise;
\* an input without any of these bytes comes back unchanged.
C24_EscapeEveryByte ==
    lastop.op = "escape" =>
        LET raw == lastop.arg[1]
        IN  /\ ret = Replaced(raw)
            /\ (\A i \in 1..Len(raw) : raw[i] \notin SpecialBytes) => ret = raw

\* escape was called with two special bytes in a row at the start, another
\* byte, and a special byte at the end
C24_Witness ==
    /\ lastop.op = "escape"
    /\ LET raw == lastop.arg[1]
       IN  /\ Len(raw) >= 4
           /\ raw[1] \in SpecialBytes
           /\ raw[2] \in SpecialBytes
           /\ raw[3] \notin SpecialBytes
           /\ raw[Len(raw)] \in SpecialBytes
           /\ Len(ret) > Len(raw)

\* the texts and the attribute values of the tree of e, in document order
RECURSIVE ContentOf(_)
ContentOf(e) ==
    LET RECURSIVE below(_)
        below(cs) ==
            IF cs = <<>> THEN <<>>
            ELSE (IF Head(cs).kind = "Element" THEN ContentOf(Head(cs).element)
                  ELSE <<[part |-> "text", raw |-> Head(cs).text]>>)
                 \o below(Tail(cs))
    IN  [i \in 1..Len(attrs(e)) |-> [part |-> "value", raw |-> attrs(e)[i][2]]]
            \o below(e.children)

\* a quote of an attribute value as it is written
QuoteReplacement(b) == IF b = "\"" THEN <<"&", "#", "3", "4", ";">> ELSE Replacement(b)

RECURSIVE ValueReplaced(_)
ValueReplaced(raw) ==
    IF raw = <<>> THEN <<>> ELSE QuoteReplacement(Head(raw)) \o ValueReplaced(Tail(raw))

----------------------------------------------------------------------------
(* Claims about the tag that is buffered *)

\* the last of the attributes as that satisfies Kind and has the key k under Key
LastOf(as, Kind(_), Key(_), k) ==
    as[CHOOSE i \in 1..Len(as) :
          /\ Kind(as[i]) /\ Key(as[i]) = k
          /\ \A j \in (i + 1)..Len(as) : ~(Kind(as[j]) /\ Key(as[j]) = k)]

IsRegular(ev) == ~IsDeclaration(ev)

\* C26: while a tag is buffered, an attribute xmlns without prefix becomes
\* the binding None -> value, an attribute xmlns:p the binding Some(p) ->
\* value, and any other attribute is kept under prefix:local, or local if it
\* has no prefix. So the prefixes of a parsed element are exactly the
\* declarations of its own tag, and none of its attributes is a declaration.
C26_AttributeClassification ==
    /\ (last.ev.type = "Attribute" /\ last.pre.next_tag # None) =>
          LET tag == last.pre.next_tag[1]
              new == next_tag[1]
              ev == last.ev
              bound == IF IsDeclaration(ev) THEN {DeclaredBy(ev)} ELSE {}
              kept == IF IsDeclaration(ev) THEN {} ELSE {AttrKey(ev)}
          IN  /\ next_tag # None
              /\ new.prefix = tag.prefix /\ new.name = tag.name
              /\ DOMAIN new.prefixes = DOMAIN tag.prefixes \cup bound
              /\ \A p \in DOMAIN new.prefixes :
                    new.prefixes[p] = IF p \in bound THEN ev.value ELSE tag.prefixes[p]
              /\ DOMAIN new.attrs = DOMAIN tag.attrs \cup kept
              /\ \A k \in DOMAIN new.attrs :
                    new.attrs[k] = IF k \in kept THEN ev.value ELSE tag.attrs[k]
    /\ (HeadClosed /\ last.res = "Ok") =>
          LET e == stack[Len(stack)]
              as == LastHeadAttrs
          IN  /\ DOMAIN e.prefixes =
                    {DeclaredBy(as[i]) : i \in {j \in 1..Len(as) : IsDeclaration(as[j])}}
              /\ \A p \in DOMAIN e.prefixes :
                    e.prefixes[p] = LastOf(as, IsDeclaration, DeclaredBy, p).value
              /\ DOMAIN e.attributes =
                    {AttrKey(as[i]) : i \in {j \in 1..Len(as) : IsRegular(as[j])}}
              /\ \A k \in DOMAIN e.attributes :
                    /\ e.attributes[k] = LastOf(as, IsRegular, AttrKey, k).value
                    /\ k # XMLNS
                    /\ split_name(k)[1] # Some(XMLNS)

\* an element was made from a tag that declares nothing and has an attribute
\* with a prefix, under a parent that declares that prefix, in a document
\* read with an initial scope
C26_Witness ==
    /\ HeadClosed
    /\ last.res = "Ok"
    /\ initial # <<>>
    /\ Len(stack) >= 2
    /\ DOMAIN stack[Len(stack)].prefixes = {}
    /\ DOMAIN stack[Len(stack) - 1].prefixes # {}
    /\ \E k \in DOMAIN stack[Len(stack)].attributes :
          split_name(k)[1] \in DOMAIN stack[Len(stack) - 1].prefixes

----------------------------------------------------------------------------
(* Claims about a TreeBuilder that is handed any events *)

\* C27: whatever events a TreeBuilder is handed, an ElementFoot with no
\* element open and events after an ElementHeadClose that failed included,
\* the scope stack holds one scope for each open element above the initial
\* scopes: its length is that of the element stack plus the number of
\* initial scopes.
C27_LockstepStacks == Len(prefixes_stack) = Len(stack) + Len(initial)

\* C30: a Text event while an element is open appends one Text node with its
\* content to the children of the innermost open element and changes
\* nothing else; a Text event while no element is open, before the root
\* starts or after it ends, leaves the builder as it was.
C30_TextHandling ==
    last.ev.type = "Text" =>
        /\ last.res = "Ok"
        /\ next_tag = last.pre.next_tag
        /\ prefixes_stack = last.pre.prefixes_stack
        /\ root = last.pre.root
        /\ Len(stack) = Len(last.pre.stack)
        /\ \A i \in 1..(Len(stack) - 1) : stack[i] = last.pre.stack[i]
        /\ Len(stack) > 0 =>
              LET top == stack[Len(stack)]
                  before == last.pre.stack[Len(stack)]
              IN  /\ top.children = Append(before.children, NodeText(last.ev.text))
                  /\ top = [before EXCEPT !.children = top.children]

\* a Text event came while an element was open inside another one that
\* already had a child
C30_Witness ==
    /\ last.ev.type = "Text"
    /\ Len(stack) >= 2
    /\ stack[1].children = <<>>
    /\ Len(stack[2].children) >= 1
    /\ stack[2].children[Len(stack[2].children)] = NodeText(last.ev.text)

----------------------------------------------------------------------------
(* Claims about a prefix that a closed element had redeclared *)

\* the scopes in force around the tag whose head was closed, outermost
\* first: the initial scopes and the declarations of the elements still open
OuterScopes ==
    initial \o [i \in 1..Len(last.pre.stack) |-> last.pre.stack[i].prefixes]

\* the elements already closed under the innermost open element
ClosedSiblings ==
    IF Len(last.pre.stack) = 0 THEN {}
    ELSE LET cs == last.pre.stack[Len(last.pre.stack)].children
         IN  {cs[i].element : i \in {j \in 1..Len(cs) : cs[j].kind = "Element"}}

\* C28: after an element that redeclared a prefix is closed, a later sibling
\* that uses the prefix without declaring it resolves it to the binding
\* that was in force before the redeclaration, that of the nearest
\* still-open ancestor (or initial scope) declaring it, not to the binding
\* of the closed element.
C28_ScopeRestored ==
    (/\ HeadClosed
     /\ \E e \in ClosedSiblings : LastTag.prefix \in DOMAIN e.prefixes
     /\ LastTag.prefix \notin DOMAIN LastTag.prefixes
     /\ Declares(OuterScopes, LastTag.prefix))
        => /\ last.res = "Ok"
           /\ Len(stack) = Len(last.pre.stack) + 1
           /\ stack[Len(stack)].namespace =
                 OuterScopes[Innermost(OuterScopes, LastTag.prefix)][LastTag.prefix]

\* the parent binds the prefix, a first child binds it to something else
\* and takes its namespace from that, and the second child, which declares
\* nothing, gets the namespace of the parent's binding
C28_Witness ==
    /\ HeadClosed
    /\ Len(last.pre.stack) = 1
    /\ LastTag.prefix # None
    /\ LastTag.prefixes = EmptyMap
    /\ LastTag.prefix \in DOMAIN last.pre.stack[1].prefixes
    /\ \E e \in ClosedSiblings :
          /\ LastTag.prefix \in DOMAIN e.prefixes
          /\ e.prefixes[LastTag.prefix] # last.pre.stack[1].prefixes[LastTag.prefix]
          /\ e.namespace = e.prefixes[LastTag.prefix]
    /\ Len(stack) = 2
    /\ stack[2].namespace = last.pre.stack[1].prefixes[LastTag.prefix]

----------------------------------------------------------------------------
(* Claims about the order in which an element is written *)

\* the prefixes of a scope in the order of the map: none first, then by name
RECURSIVE PrefixOrder(_)
PrefixOrder(ps) ==
    IF ps = {} THEN <<>>
    ELSE LET p == IF None \in ps THEN None
                  ELSE CHOOSE x \in ps : \A y \in ps \ {x} : StrLess(x[1], y[1])
         IN  <<p>> \o PrefixOrder(ps \ {p})

\* what the writer is to be given for e below the declarations of outer:
\* the declarations, the items of the head, the items of each child node,
\* the foot
RECURSIVE ExpectedSteps(_, _)
ExpectedSteps(e, outer) ==
    LET scope == [p \in DOMAIN outer \cup DOMAIN e.prefixes |->
                    IF p \in DOMAIN e.prefixes THEN e.prefixes[p] ELSE outer[p]]
        order == PrefixOrder(DOMAIN e.prefixes)
        as == attrs(e)
        RECURSIVE below(_)
        below(cs) ==
            IF cs = <<>> THEN <<>>
            ELSE (IF Head(cs).kind = "Element"
                  THEN ExpectedSteps(Head(cs).element, scope)
                  ELSE <<[item |-> "Text", text |-> Head(cs).text]>>)
                 \o below(Tail(cs))
    IN  [i \in 1..Len(order) |->
            [item |-> "Declare", prefix |-> order[i], namespace |-> e.prefixes[order[i]]]]
        \o <<[item |-> "ElementHeadStart",
              namespace |-> IF e.namespace = <<>> THEN None ELSE Some(e.namespace),
              name |-> e.name]>>
        \o [i \in 1..Len(as) |->
               LET key == split_name(as[i][1])
               IN  [item |-> "Attribute",
                    namespace |-> IF key[1] = None THEN None ELSE Some(scope[key[1]]),
                    name |-> key[2], value |-> as[i][2]]]
        \o (IF e.children = <<>> THEN <<>>
            ELSE <<[item |-> "ElementHeadEnd"]>> \o below(e.children))
        \o <<[item |-> "ElementFoot"]>>

\* the declarations and the items in the order in which the writer got them
RECURSIVE StepsFrom(_, _, _)
StepsFrom(its, ds, n) ==
    IF ds # <<>> /\ Head(ds).at = n
    THEN <<[item |-> "Declare", prefix |-> Head(ds).prefix,
            namespace |-> Head(ds).namespace]>> \o StepsFrom(its, Tail(ds), n)
    ELSE IF n < Len(its) THEN <<its[n + 1]>> \o StepsFrom(its, ds, n + 1)
    ELSE <<>>

\* C29: when write_to succeeds the writer is given, for each element and in
\* this order: the declarations of its prefixes in the order of the prefix
\* map, before its ElementHeadStart (without namespace when the namespace is
\* empty); one Attribute for each attribute in ascending key order; only if
\* it has children an ElementHeadEnd and then the items of each child in
\* document order, an Element by the same rule and a Text as one Text item;
\* and its ElementFoot.
C29_SerializationOrder ==
    lastop.op = "write_to" /\ ret = "Ok" =>
        /\ Len(written[1].decls) + Len(written[1].items)
              = Len(ExpectedSteps(elem, EmptyMap))
        /\ StepsFrom(written[1].items, written[1].decls, 0) = ExpectedSteps(elem, EmptyMap)

\* the tree written has, below its root, an element with a default and a
\* named declaration, two attributes, and a Text child before an Element
\* child that has children itself
C29_Witness ==
    /\ lastop.op = "write_to"
    /\ ret = "Ok"
    /\ LET es == PreorderScoped(elem, EmptyMap)
       IN  \E k \in 2..Len(es) :
              LET e == es[k].element
              IN  /\ Cardinality(DOMAIN e.prefixes) >= 2
                  /\ Cardinality(DOMAIN e.attributes) >= 2
                  /\ Len(e.children) >= 2
                  /\ e.children[1].kind = "Text"
                  /\ e.children[2].kind = "Element"
                  /\ e.children[2].element.children # <<>>

----------------------------------------------------------------------------
(* Claims about the tree that a well-formed document gives *)

\* The document that the events spell, read off the events alone: its
\* elements in the order of their ElementHeadClose, each with the element
\* open around it (0 for none), the events of its head, and its content in
\* the order of the stream: a Text at its event, a nested element (by its
\* number) at that element's ElementFoot.
DocumentOf(evs) ==
    LET RECURSIVE go(_, _, _)
        go(i, open, els) ==
            IF i > Len(evs) THEN els
            ELSE LET ev == evs[i]
                     top == IF open = <<>> THEN 0 ELSE open[Len(open)]
                 IN  CASE ev.type = "ElementHeadClose" ->
                            LET n == AttrsInHead(evs, i - 1)
                            IN  go(i + 1, Append(open, Len(els) + 1),
                                   Append(els, [parent |-> top,
                                                head |-> evs[i - n - 1],
                                                attrs |-> SubSeq(evs, i - n, i - 1),
                                                content |-> <<>>]))
                       [] ev.type = "Text" ->
                            go(i + 1, open,
                               IF top = 0 THEN els
                               ELSE [els EXCEPT ![top].content =
                                        Append(@, [kind |-> "Text", text |-> ev.text])])
                       [] ev.type = "ElementFoot" ->
                            LET rest == SubSeq(open, 1, Len(open) - 1)
                                up == IF rest = <<>> THEN 0 ELSE rest[Len(rest)]
                            IN  go(i + 1, rest,
                                   IF up = 0 THEN els
                                   ELSE [els EXCEPT ![up].content =
                                            Append(@, [kind |-> "Element", index |-> top])])
                       [] OTHER -> go(i + 1, open, els)
    IN  go(1, <<>>, <<>>)

\* The content of each element of the tree of e, the elements numbered in
\* document order from k: a Text child by its text, an Element child by its
\* number.
RECURSIVE TreeContent(_, _)
TreeContent(e, k) ==
    LET RECURSIVE walk(_, _, _, _)
        walk(cs, next, entries, subs) ==
            IF cs = <<>> THEN <<entries>> \o subs
            ELSE IF Head(cs).kind = "Text"
            THEN walk(Tail(cs), next,
                      Append(entries, [kind |-> "Text", text |-> Head(cs).text]), subs)
            ELSE LET sub == TreeContent(Head(cs).element, next)
                 IN  walk(Tail(cs), next + Len(sub),
                          Append(entries, [kind |-> "Element", index |-> next]),
                          subs \o sub)
    IN  walk(e.children, k + 1, <<>>, <<>>)

\* C31: the children of each element of the tree parsed from a well-formed
\* document are, in the order of the stream, the Text events received while
\* it was the innermost open element and the elements closed directly under
\* it, each at the place of its ElementFoot; an element is attached to its
\* parent at its own ElementFoot, with all of its content, and not at its
\* ElementHeadClose.
C31_DocumentOrder ==
    /\ (status = "Ok" /\ returned # None) =>
          LET doc == DocumentOf(events)
              tc == TreeContent(returned[1], 1)
          IN  /\ Len(tc) = Len(doc)
              /\ \A k \in 1..Len(doc) : tc[k] = doc[k].content
    /\ (HeadClosed /\ last.res = "Ok") =>
          /\ SubSeq(stack, 1, Len(last.pre.stack)) = last.pre.stack
          /\ stack[Len(stack)].children = <<>>
    /\ (last.ev.type = "ElementFoot" /\ Len(last.pre.stack) >= 2) =>
          LET n == Len(last.pre.stack)
          IN  /\ Len(stack) = n - 1
              /\ stack[n - 1].children =
                    Append(last.pre.stack[n - 1].children, NodeElement(last.pre.stack[n]))

\* the root parsed has an element that holds a child, then a Text after it
C31_Witness ==
    /\ status = "Ok"
    /\ returned # None
    /\ LET cs == returned[1].children
       IN  /\ Len(cs) = 2
           /\ cs[1].kind = "Element"
           /\ cs[1].element.children # <<>>
           /\ cs[2].kind = "Text"

----------------------------------------------------------------------------
(* Claims about the failures of the builder *)

\* from_reader_with_prefixes over the events handed over so far
ReadSoFar(n) == from_reader(SubSeq(events, 1, n), initial)

\* C32: whatever state the builder is in, an event either succeeds or
\* fails with MissingNamespace, and only an ElementHeadClose of a buffered
\* tag fails; XmlDeclaration, ElementHeadOpen, Attribute, Text and
\* ElementFoot never fail.  When the failure comes under from_reader, the
\* call fails with MissingNamespace and returns neither a root nor a part
\* of the tree.
C32_OnlyMissingNamespace ==
    /\ last.res \in {"Ok", "MissingNamespace"}
    /\ last.res # "Ok" => last.ev.type = "ElementHeadClose" /\ last.pre.next_tag # None
    /\ ReadSoFar(Len(events)).status = "MissingNamespace" =>
          ReadSoFar(Len(events)).returned = None
    /\ (/\ last.res = "MissingNamespace"
        /\ ReadSoFar(Len(events) - 1).status = "EndOfDocument")
          => ReadSoFar(Len(events)).status = "MissingNamespace"

\* the head of a second tag failed to close while its parent was open, and
\* from_reader over these events fails at this event
C32_Witness ==
    /\ last.res = "MissingNamespace"
    /\ Len(stack) > 0
    /\ ReadSoFar(Len(events) - 1).status = "EndOfDocument"
    /\ ReadSoFar(Len(events)).status = "MissingNamespace"
    /\ ReadSoFar(Len(events)).returned = None

----------------------------------------------------------------------------
(* Claims about the course of a well-formed document *)

\* C33: while a well-formed document whose tag prefixes are all declared
\* is read, depth() is after each event the number of elements whose head
\* has closed and whose foot has not yet come; the root is produced at the
\* ElementFoot of the root, when as many feet as heads have come, and not
\* before; and at that point the element stack is empty and the scope
\* stack holds the initial scopes alone.
C33_Completion ==
    status \in {"reading", "Ok"} =>
        LET heads == CountType(events, "ElementHeadClose")
            feet == CountType(events, "ElementFoot")
        IN  /\ Len(stack) = heads - feet
            /\ status = "Ok" <=> (heads > 0 /\ heads = feet)
            /\ status = "reading" => returned = None /\ root = None
            /\ status = "Ok" =>
                  /\ last.ev.type = "ElementFoot"
                  /\ Len(last.pre.stack) = 1
                  /\ returned = Some(last.pre.stack[1])
                  /\ stack = <<>>
                  /\ prefixes_stack = initial

\* a root was produced whose child has a child, with a Text in between
C33_Witness ==
    /\ status = "Ok"
    /\ returned # None
    /\ CountType(events, "ElementHeadClose") = 3
    /\ CountType(events, "Text") = 1
    /\ \E i \in 1..Len(returned[1].children) :
          /\ returned[1].children[i].kind = "Element"
          /\ \E j \in 1..Len(returned[1].children[i].element.children) :
                returned[1].children[i].element.children[j].kind = "Element"

----------------------------------------------------------------------------
(* Claims about a tag that says the same thing twice *)

\* the attributes i < j of the head are of the same kind and have the same
\* key, and none after j has it
SaidAgain(as, Kind(_), Key(_), i, j) ==
    /\ i < j
    /\ Kind(as[i]) /\ Kind(as[j])
    /\ Key(as[i]) = Key(as[j])
    /\ \A m \in (j + 1)..Len(as) : ~(Kind(as[m]) /\ Key(as[m]) = Key(as[j]))

\* C34: when a tag declares the same prefix more than once, the tag, and
\* the element made from it, bind the prefix to the value of the last of
\* these declarations, and a tag that uses this prefix gets that value as
\* the namespace of its element; when a regular attribute key comes more
\* than once, the attribute holds the last value.  Each map has one entry
\* for each distinct key.
C34_LastWriteWins ==
    HeadClosed =>
        LET as == LastHeadAttrs
            tag == LastTag
        IN  /\ \A i, j \in 1..Len(as) :
                  SaidAgain(as, IsDeclaration, DeclaredBy, i, j) =>
                      /\ tag.prefixes[DeclaredBy(as[j])] = as[j].value
                      /\ last.res = "Ok" =>
                            stack[Len(stack)].prefixes[DeclaredBy(as[j])] = as[j].value
                      /\ tag.prefix = DeclaredBy(as[j]) =>
                            /\ last.res = "Ok"
                            /\ stack[Len(stack)].namespace = as[j].value
            /\ \A i, j \in 1..Len(as) :
                  SaidAgain(as, IsRegular, AttrKey, i, j) =>
                      /\ tag.attrs[AttrKey(as[j])] = as[j].value
                      /\ last.res = "Ok" =>
                            stack[Len(stack)].attributes[AttrKey(as[j])] = as[j].value
            /\ Cardinality(DOMAIN tag.prefixes) = Cardinality(
                  {DeclaredBy(as[i]) : i \in {j \in 1..Len(as) : IsDeclaration(as[j])}})
            /\ Cardinality(DOMAIN tag.attrs) = Cardinality(
                  {AttrKey(as[i]) : i \in {j \in 1..Len(as) : IsRegular(as[j])}})

\* a tag p1:a declared p1 twice, with two namespaces, and then had an
\* attribute; its element has the namespace declared last
C34_Witness ==
    /\ HeadClosed
    /\ last.res = "Ok"
    /\ LastTag.prefix = Some(P1)
    /\ Len(LastHeadAttrs) = 3
    /\ SaidAgain(LastHeadAttrs, IsDeclaration, DeclaredBy, 1, 2)
    /\ LastHeadAttrs[1].value # LastHeadAttrs[2].value
    /\ IsRegular(LastHeadAttrs[3])
    /\ stack[Len(stack)].namespace = LastHeadAttrs[2].value
    /\ Cardinality(DOMAIN stack[Len(stack)].prefixes) = 1

----------------------------------------------------------------------------
(* Claims about an ElementHeadClose that fails *)

\* C35: when ElementHeadClose fails with MissingNamespace, the element
\* stack, the scope stack and the root are as they were before the event,
\* so that the tag that failed leaves no scope behind.
C35_FailedCloseLeavesState ==
    (HeadClosed /\ last.res = "MissingNamespace") =>
        /\ stack = last.pre.stack
        /\ prefixes_stack = last.pre.prefixes_stack
        /\ root = last.pre.root

----------------------------------------------------------------------------
(* Claims about equality as a relation *)

\* The trees at hand when two elements were compared or one was cloned: the
\* two, each without its declarations at every depth, the first with
\* another declaration on its root, and the first without its children.
TreesAtHand ==
    <<elem, spare, StripPrefixes(elem), StripPrefixes(spare),
      [elem EXCEPT !.prefixes = PrefixesInsert(EmptyMap, None, NS2)],
      [elem EXCEPT !.children = <<>>]>>

\* C36: equality of Elements is an equivalence relation: every tree equals
\* itself, and its clone; a == b gives b == a; a == b and b == c give
\* a == c; also for trees with Text and Element children and for trees
\* with different numbers of children.
C36_EqualityIsEquivalence ==
    lastop.op \in {"eq", "clone"} =>
        LET ts == TreesAtHand
            N == 1..Len(ts)
        IN  /\ \A i \in N : ElementEq(ts[i], ts[i])
            /\ lastop.op = "clone" => ElementEq(elem, spare)
            /\ \A i, j \in N :
                  i < j => (ElementEq(ts[i], ts[j]) <=> ElementEq(ts[j], ts[i]))
            /\ \A i, j \in N :
                  (i # j /\ ElementEq(ts[i], ts[j])) =>
                      \A k \in N \ {i, j} :
                          ElementEq(ts[j], ts[k]) => ElementEq(ts[i], ts[k])

\* two trees were compared, the first with Text and Element children: it,
\* the same without its declarations and the same with another declaration
\* are three different trees that are equal; and it is not equal to the
\* other tree, which has fewer children, nor to itself without children
C36_Witness ==
    /\ lastop.op = "eq"
    /\ LET a == TreesAtHand[1]
           b == TreesAtHand[3]
           c == TreesAtHand[5]
       IN  /\ a # b /\ b # c /\ a # c
           /\ ElementEq(a, b) /\ ElementEq(b, c) /\ ElementEq(a, c)
           /\ \E i, j \in 1..Len(a.children) :
                 a.children[i].kind = "Text" /\ a.children[j].kind = "Element"
    /\ ~ElementEq(elem, spare)
    /\ elem.name = spare.name /\ elem.namespace = spare.namespace
    /\ 0 < Len(spare.children) /\ Len(spare.children) < Len(elem.children)
    /\ ~ElementEq(elem, TreesAtHand[6])

----------------------------------------------------------------------------
(* Claims about the elements of the tree being those of the document *)

\* the number of elements in the tree of e
RECURSIVE Size(_)
Size(e) ==
    LET RECURSIVE sum(_)
        sum(cs) ==
            IF cs = <<>> THEN 0
            ELSE (IF Head(cs).kind = "Element" THEN Size(Head(cs).element) ELSE 0)
                 + sum(Tail(cs))
    IN  1 + sum(e.children)

\* the number of the element that holds element k as a child, 0 for none,
\* in the contents tc of the elements of a tree
HolderOf(tc, k) ==
    LET hs == {j \in 1..Len(tc) :
                  \E m \in 1..Len(tc[j]) :
                      tc[j][m].kind = "Element" /\ tc[j][m].index = k}
    IN  IF hs = {} THEN 0 ELSE CHOOSE j \in hs : TRUE

\* the element e is the one that the head of d made: its name, the
\* prefixes it declares and the keys of its attributes
MadeFrom(e, d) ==
    /\ e.name = d.head.name
    /\ DOMAIN e.prefixes =
          {DeclaredBy(d.attrs[i]) : i \in {j \in 1..Len(d.attrs) : IsDeclaration(d.attrs[j])}}
    /\ DOMAIN e.attributes =
          {AttrKey(d.attrs[i]) : i \in {j \in 1..Len(d.attrs) : IsRegular(d.attrs[j])}}

\* C37: while a well-formed document is parsed, the open elements and the
\* elements below them are as many as the heads that closed; and the tree
\* returned holds exactly one element for each head that closed, in the
\* order of the heads, each as a direct child of the element that was the
\* innermost open one when its head closed, the first as the root.
C37_ConservationOfElements ==
    /\ status = "reading" =>
          LET RECURSIVE held(_)
              held(i) == IF i = 0 THEN 0 ELSE Size(stack[i]) + held(i - 1)
          IN  held(Len(stack)) = CountType(events, "ElementHeadClose")
    /\ (status = "Ok" /\ returned # None) =>
          LET doc == DocumentOf(events)
              es == PreorderScoped(returned[1], EmptyMap)
              tc == TreeContent(returned[1], 1)
          IN  /\ Size(returned[1]) = CountType(events, "ElementHeadClose")
              /\ Len(es) = Len(doc)
              /\ \A k \in 1..Len(doc) :
                    /\ MadeFrom(es[k].element, doc[k])
                    /\ HolderOf(tc, k) = doc[k].parent
                    /\ Cardinality({<<j, m>> \in (1..Len(tc)) \X (1..(MaxElems + MaxTexts)) :
                                       /\ m <= Len(tc[j])
                                       /\ tc[j][m].kind = "Element"
                                       /\ tc[j][m].index = k})
                          = IF k = 1 THEN 0 ELSE 1

\* a root whose child has a child, the three made from different heads
C37_Witness ==
    /\ status = "Ok"
    /\ returned # None
    /\ Size(returned[1]) = 3
    /\ LET doc == DocumentOf(events)
       IN  /\ Len(doc) = 3
           /\ doc[2].parent = 1
           /\ doc[3].parent = 2
           /\ doc[1].attrs # doc[2].attrs
           /\ doc[2].attrs # doc[3].attrs

----------------------------------------------------------------------------
(* Claims about events that come when they are not expected *)

\* C38: an Attribute or an ElementHeadClose while no tag is buffered
\* leaves the builder as it was; an ElementHeadOpen while a tag is buffered
\* puts the new tag, without declarations and attributes, in its place;
\* and an ElementFoot while no element is open leaves the element stack,
\* the scope stack, initial scopes included, and the root as they were.
C38_StrayEventsAbsorbed ==
    /\ (last.ev.type \in {"Attribute", "ElementHeadClose"} /\ last.pre.next_tag = None)
          => last.res = "Ok" /\ TB = last.pre
    /\ (last.ev.type = "ElementHeadOpen" /\ last.pre.next_tag # None) =>
          /\ last.res = "Ok"
          /\ next_tag = Some([prefix |-> last.ev.prefix, name |-> last.ev.name,
                              prefixes |-> EmptyMap, attrs |-> EmptyMap])
          /\ TB = [last.pre EXCEPT !.next_tag = next_tag]
    /\ (last.ev.type = "ElementFoot" /\ Len(last.pre.stack) = 0) =>
          /\ last.res = "Ok"
          /\ stack = last.pre.stack
          /\ prefixes_stack = last.pre.prefixes_stack
          /\ root = last.pre.root

=============================================================================
